---- MODULE Spec2Model ----
(***************************************************************************)
(* A model of the rustos kernel's process scheduler, its system calls and  *)
(* the timer that drives them (kern/src/process, kern/src/traps,           *)
(* kern/src/irq, lib/pi/src/timer.rs).                                     *)
(*                                                                         *)
(* 64-bit values (process ids, x registers) are tuples of four 16-bit      *)
(* limbs, most significant first, so that the width of Id = u64 is kept.   *)
(* Option<T> is a sequence: <<>> is None and <<v>> is Some(v).             *)
(* The system timer counts microseconds; `now` is its counter.             *)
(***************************************************************************)
EXTENDS Integers, Sequences, FiniteSets, TLC

\* ------------------------------------------------------------------ bounds
\* Most successful calls of add in one behaviour, hence most processes in
\* the queue.
MaxAdds == 3
\* Microseconds the clock advances in one Advance step.
ClockStep == 10500
\* Most Advance steps in one behaviour.
MaxSteps == 3
\* Values a user program writes to x0 before it enters the kernel (the
\* milliseconds of a sleep).
UserVals == {0, 11}
MaxOthers == 12         \* bound: most other processes beside a sleeper
SleepMs == 100          \* bound: the milliseconds the sleeper asks for
MaxSysOthers == 1       \* bound: most processes beside the one that runs,
                        \* where every syscall is made
HeapWords == 8          \* bound: the size of the heap, in 8-byte words
MaxLive == 4            \* bound: most blocks allocated at a time
MaxSmall == 6           \* bound: most blocks allocated at a time where
                        \* every block has 8 bytes
MaxSpins == 2           \* bound: most iterations of the wfe loop in one path

\* ------------------------------------------------------- program constants
\* One 16-bit limb of a u64 (type Id = u64).
Limb == 65536
\* kmain spins for one second before the kernel is initialised.
BootTime == 1000000
\* The scheduling quantum, in microseconds (param.rs: 10 ms).
TICK == 10000
\* Microseconds in a millisecond (Duration::as_millis).
MicrosPerMilli == 1000
MicrosPerSec == 1000000

None == <<>>
Some(v) == <<v>>

\* ------------------------------------------------------------ u64 and u32
U64Zero == <<0, 0, 0, 0>>
U64Max == <<Limb - 1, Limb - 1, Limb - 1, Limb - 1>>

\* The scheduling quantum, in milliseconds.
TickMs == TICK \div MicrosPerMilli

\* The larger of two numbers.
Max(a, b) == IF a >= b THEN a ELSE b

\* n as u64, for 0 <= n < 2^31.
U64FromNat(n) == <<0, 0, n \div Limb, n % Limb>>

\* The number a u32 or u64 value of the model stands for (values below 2^31).
LowNat(v) == v[Len(v) - 1] * Limb + v[Len(v)]

\* v as u32: the low 32 bits, as two limbs.
AsU32(v) == <<v[3], v[4]>>

\* n >= m for a small natural n and a u32 m.
GeU32(n, m) == m[1] < 32768 /\ n >= m[1] * Limb + m[2]

RECURSIVE carry_add1(_, _)
carry_add1(v, i) ==
    IF i = 0 THEN None
    ELSE IF v[i] < Limb - 1 THEN Some([v EXCEPT ![i] = @ + 1])
    ELSE carry_add1([v EXCEPT ![i] = 0], i - 1)

\* u64::wrapping_add(1) in the place of checked_add(1).
wrapping_add1(v) ==
    IF carry_add1(v, 4) = None THEN Some(U64Zero) ELSE carry_add1(v, 4)

\* u64::checked_add(1)
checked_add1(v) == carry_add1(v, 4)

\* The last id but one.
NearMax == <<Limb - 1, Limb - 1, Limb - 1, Limb - 2>>

\* a < b for u64 values.
U64Less(a, b) ==
    \E i \in 1..4 : a[i] < b[i] /\ \A j \in 1..(i - 1) : a[j] = b[j]

\* ------------------------------------------------------------------ state
VARIABLES
    processes,  \* Scheduler.processes: the queue, head first
    last_id,    \* Scheduler.last_id: Option<Id>
    tf,         \* the trap frame of the CPU: the registers of the user
                \* program that runs, or the frame a kernel entry works on
    pc,         \* "boot": before start; "user": a process runs at EL0;
                \* "sched": in the loop of GlobalScheduler::switch_to
    now,        \* the counter of the system timer, in microseconds
    compare,    \* the timer's compare register 1, armed by tick_in
    nadded,     \* history: the number of calls of add that returned Some
    last,       \* history: the last scheduler operation and what it did
    owed,       \* history: pairs <<p, q>>: q was Ready in the queue when p
                \* was last scheduled out and has not been polled since
    visit,      \* history: the PIDs returned by consecutive timer ticks
    slept,      \* history: pairs <<p, t>>: p called sleep at time t and has
                \* not run since
    locks,      \* the spinlocks of the kernel path that runs: the locks
                \* held, the lock events still to come, and the history
                \* of which lock was taken under which
    heap,       \* the Allocator: bins, free_start, free_end
    calc,       \* one use of map_to_bin and map_to_size: the build, the
                \* heap, the size and the results so far
    heapx,      \* history of the allocator: the blocks allocated, the last
                \* call, the loop and the scenario the calls so far make
    vm,         \* a user page table and the heap its pages come from: the
                \* L3 entries written, the pages handed out, the last call
    kpt,        \* the kernel page table while KernPageTable::new builds it
    exc,        \* one entry of handle_exception: the exception, the trap
                \* frame before and after, and how the entry ended
    sq,         \* a scheduler whose running program writes tpidr: the
                \* queue, the registers, and the last call with the queue
                \* before it, between schedule_out and switch_to, and after
    loc         \* calls of PageTable::locate and of UserPageTable::alloc
                \* on a new table: the addresses and what the calls did

\* The state outside the scheduler and the timer.
notSched == <<locks, heap, heapx, calc, vm, kpt, exc, sq, loc>>

\* The state outside the allocator.
notHeap == <<processes, last_id, tf, pc, now, compare, nadded, last, owed,
             visit, slept, locks, calc, vm, kpt, exc, sq, loc>>

\* The state of the scheduler, the CPU and the timer.
schedVars ==
    <<processes, last_id, tf, pc, now, compare, nadded, last, owed, visit,
      slept>>

vars == <<schedVars, notSched>>

\* State of a process (process/state.rs). A Waiting state holds the sleep
\* predicate's captures: start (ms, u32) and ms (u32).
Ready == [tag |-> "Ready", start |-> 0, ms |-> <<0, 0>>]
Running == [tag |-> "Running", start |-> 0, ms |-> <<0, 0>>]
Dead == [tag |-> "Dead", start |-> 0, ms |-> <<0, 0>>]
Waiting(start, ms) == [tag |-> "Waiting", start |-> start, ms |-> ms]

\* No kernel path runs: no lock is held.
LocksIdle == [held |-> <<>>, todo |-> <<>>, order |-> {}, spins |-> 0]

\* bins: [LinkedList; 29]
NumBins == 29

\* Allocator::new on a heap of HeapWords words behind the first address
\* that is aligned to the smallest class, and no call of it so far.
HeapStart == 8 * 1
HeapEnd == HeapStart + 8 * HeapWords
HeapIdle ==
    [bins |-> [k \in 1..NumBins |-> <<>>], free_start |-> HeapStart,
     free_end |-> HeapEnd]
\* map_to_bin and map_to_size are not in use.
NoCalc ==
    [stage |-> "off", checks |-> FALSE, start |-> U64Zero, end |-> U64Zero,
     size |-> U64Zero, bin |-> 0, csize |-> U64Zero, ret |-> U64Zero,
     ret2 |-> U64Zero, at |-> "none"]

\* No layout: what `failed` is when the last call was not an alloc that
\* returned null.
NoLayout == [size |-> 0, align |-> 0]

\* No class: what `from` is when the last call was not an alloc that
\* returned a block.
NoBin == NumBins + 1

NoRun ==
    [stage |-> 0, layout |-> [size |-> 0, align |-> 0], ptr |-> 0, adv |-> 0,
     settled |-> FALSE, again |-> FALSE, moved |-> FALSE,
     merged |-> FALSE]
NoCalls ==
    [live |-> {},
     run |-> NoRun,
     scen |-> [stage |-> "alloc", ptrs |-> <<>>],
     from |-> NoBin,
     failed |-> NoLayout,
     top |-> HeapStart]

\* core::ptr::null_mut()
Null == 0

\* The size of a page and of the three tables of a PageTable (param.rs).
PAGE_SIZE == 65536

\* The L3 entries of a new PageTable: L3Entry::new() in each of the 8192
\* slots of both tables. The tables are kept as the function from the
\* slots <<l2_i, l3_i>> that were written to their entries.
NoEntries == <<>>

\* The last call on a user page table: none yet.
NoVmCall ==
    [op |-> "none", va |-> U64Zero, perm |-> "none", ret |-> Null,
     pre |-> NoEntries,
     hpre |-> [free_start |-> 0, free |-> {}], reach |-> {}, at |-> "none",
     result |-> "none", file |-> <<>>]

\* No allocator, no page table and no call yet.
NoVm ==
    [status |-> "off",
     heap |-> [bins |-> [k \in 1..NumBins |-> <<>>], free_start |-> 0,
               free_end |-> 0],
     base |-> Null, l3 |-> NoEntries, pages |-> {}, n |-> 0, s4 |-> <<>>,
     procs |-> <<>>, last |-> NoVmCall]

\* KernPageTable::new has not run.
NoKpt ==
    [stage |-> "off", ending_address |-> 0, curr_address |-> 0,
     l3 |-> NoEntries]

\* The trap frame of an exception entry: the fields handle_exception and
\* the system calls read or write, and one of the others (sp).
ExcFrameZeroed ==
    [tpidr |-> U64Zero, sp |-> U64Zero, elr |-> U64Zero, x0 |-> U64Zero,
     x1 |-> U64Zero]

\* No exception has been taken.
NoExc ==
    [stage |-> "off", checks |-> FALSE, n |-> 0, kind |-> "none",
     esr |-> <<0, 0>>, pre |-> ExcFrameZeroed, tf |-> ExcFrameZeroed,
     call |-> "none", out |-> "none"]

\* TrapFrame::default() / TrapFrame::zeroed()
TrapFrameZeroed == [tpidr |-> U64Zero, x0 |-> U64Zero, x1 |-> U64Zero]

\* Process::load: a Ready process with a fresh context.
NewProcess == [context |-> TrapFrameZeroed, state |-> Ready]

\* No call of locate so far.
NoLoc == <<>>

\* No call of the scheduler so far.
NoSqCall ==
    [op |-> "none", state |-> Ready, frame |-> TrapFrameZeroed,
     cur |-> <<>>, pre |-> <<>>, mid |-> <<>>, out |-> FALSE, post |-> <<>>,
     tf |-> TrapFrameZeroed, ret |-> <<>>, t |-> 0, polls |-> <<>>]

\* The scheduler before GlobalScheduler::initialize.
NoSq ==
    [pc |-> "off", processes |-> <<>>, last_id |-> <<>>,
     tf |-> TrapFrameZeroed, now |-> BootTime, n |-> 0, cur |-> <<>>,
     saved |-> {}, last |-> NoSqCall]

Remove(q, i) == SubSeq(q, 1, i - 1) \o SubSeq(q, i + 1, Len(q))

Pids(q) == [i \in 1..Len(q) |-> q[i].context.tpidr]

\* ------------------------------------------------------------------ timer
\* timer::current_time().as_millis() as u32
current_millis(t) == t \div MicrosPerMilli

\* A timer armed two quanta ahead.
tick_in_twice(t) == t + 2 * TICK

\* timer::tick_in(TICK): compare register 1 = CLO + TICK
tick_in(t) == t + TICK

\* The interrupt of timer 1 is pending once the counter has reached the
\* compare register.
IrqPending == now >= compare

\* -------------------------------------------------------------- processes
\* The closure of sys_sleep, polled at time t on process p.
sleep_pred(p, t) ==
    LET time == current_millis(t)
        elapsed == time - p.state.start
    IN IF GeU32(elapsed, p.state.ms)
       THEN [ready |-> TRUE,
             proc |-> [p EXCEPT !.context.x0 = U64FromNat(elapsed)]]
       ELSE [ready |-> FALSE, proc |-> p]

\* A readiness test that never polls the predicate of a Waiting process.
is_ready_unpolled(p, t) ==
    IF p.state.tag = "Ready" THEN [ready |-> TRUE, proc |-> p]
    ELSE [ready |-> FALSE, proc |-> p]

\* A readiness test that reports a Dead process ready.
is_ready_or_dead(p, t) ==
    IF p.state.tag \in {"Ready", "Dead"} THEN [ready |-> TRUE, proc |-> p]
    ELSE IF p.state.tag = "Waiting"
         THEN LET r == sleep_pred(p, t)
              IN IF r.ready THEN [ready |-> TRUE, proc |-> [r.proc EXCEPT !.state = Ready]]
                 ELSE [ready |-> FALSE, proc |-> p]
    ELSE [ready |-> FALSE, proc |-> p]

\* A readiness test that leaves a process Waiting when its event has come.
is_ready_still_waiting(p, t) ==
    IF p.state.tag = "Ready" THEN [ready |-> TRUE, proc |-> p]
    ELSE IF p.state.tag = "Waiting"
    THEN LET r == sleep_pred(p, t)
         IN IF r.ready THEN [ready |-> TRUE, proc |-> r.proc]
            ELSE [ready |-> FALSE, proc |-> p]
    ELSE [ready |-> FALSE, proc |-> p]

\* Process::is_ready, polled at time t.
is_ready(p, t) ==
    IF p.state.tag = "Ready" THEN [ready |-> TRUE, proc |-> p]
    ELSE IF p.state.tag = "Waiting"
    THEN LET r == sleep_pred(p, t)
         IN IF r.ready
            THEN [ready |-> TRUE, proc |-> [r.proc EXCEPT !.state = Ready]]
            ELSE [ready |-> FALSE, proc |-> p]
    ELSE [ready |-> FALSE, proc |-> p]

\* -------------------------------------------------------------- scheduler
\* Scheduler::add
add(q, lid, process) ==
    LET next == IF lid = None THEN Some(U64Zero) ELSE checked_add1(lid[1])
    IN IF next = None
       THEN [processes |-> q, last_id |-> lid, ret |-> None]
       ELSE [processes |-> Append(q, [process EXCEPT !.context.tpidr = next[1]]),
             last_id |-> next,
             ret |-> next]

RECURSIVE find_tpidr(_, _, _)
find_tpidr(q, id, i) ==
    IF i > Len(q) THEN 0
    ELSE IF q[i].context.tpidr = id THEN i
    ELSE find_tpidr(q, id, i + 1)

\* schedule_out with push_front for push_back.
schedule_out_push_front(q, new_state, frame) ==
    LET i == find_tpidr(q, frame.tpidr, 1)
    IN IF i = 0 THEN [processes |-> q, ret |-> FALSE]
       ELSE [processes |->
                 <<[context |-> frame, state |-> new_state]>> \o Remove(q, i),
             ret |-> TRUE]

\* schedule_out that leaves the process at its place in the queue.
schedule_out_in_place(q, new_state, frame) ==
    LET i == find_tpidr(q, frame.tpidr, 1)
    IN IF i = 0 THEN [processes |-> q, ret |-> FALSE]
       ELSE [processes |->
                 [q EXCEPT ![i] = [context |-> frame, state |-> new_state]],
             ret |-> TRUE]

\* schedule_out that leaves the context of the process as it was.
schedule_out_old_context(q, new_state, frame) ==
    LET i == find_tpidr(q, frame.tpidr, 1)
    IN IF i = 0 THEN [processes |-> q, ret |-> FALSE]
       ELSE [processes |->
                 Append(Remove(q, i), [q[i] EXCEPT !.state = new_state]),
             ret |-> TRUE]

\* Scheduler::schedule_out
schedule_out(q, new_state, frame) ==
    LET i == find_tpidr(q, frame.tpidr, 1)
    IN IF i = 0 THEN [processes |-> q, ret |-> FALSE]
       ELSE [processes |->
                 Append(Remove(q, i), [context |-> frame, state |-> new_state]),
             ret |-> TRUE]

\* A walk that goes on to the last ready process.
RECURSIVE last_ready(_, _, _)
last_ready(q, t, i) ==
    IF i > Len(q) THEN 0
    ELSE IF last_ready(q, t, i + 1) # 0 THEN last_ready(q, t, i + 1)
    ELSE IF is_ready(q[i], t).ready THEN i
    ELSE 0

RECURSIVE first_ready(_, _, _)
first_ready(q, t, i) ==
    IF i > Len(q) THEN 0
    ELSE IF is_ready(q[i], t).ready THEN i
    ELSE first_ready(q, t, i + 1)

\* switch_to with push_back for push_front.
switch_to_push_back(q, frame, t) ==
    LET i == first_ready(q, t, 1)
    IN IF i = 0 THEN [processes |-> q, tf |-> frame, ret |-> None]
       ELSE LET ready_process == is_ready(q[i], t).proc
            IN [processes |->
                    Append(Remove(q, i), [ready_process EXCEPT !.state = Running]),
                tf |-> ready_process.context,
                ret |-> Some(ready_process.context.tpidr)]

\* switch_to that leaves the process it picks at its place in the queue.
switch_to_in_place(q, frame, t) ==
    LET i == first_ready(q, t, 1)
    IN IF i = 0 THEN [processes |-> q, tf |-> frame, ret |-> None]
       ELSE LET ready_process == is_ready(q[i], t).proc
            IN [processes |->
                    [q EXCEPT ![i] = [ready_process EXCEPT !.state = Running]],
                tf |-> ready_process.context,
                ret |-> Some(ready_process.context.tpidr)]

\* Scheduler::switch_to at time t
switch_to(q, frame, t) ==
    LET i == first_ready(q, t, 1)
    IN IF i = 0 THEN [processes |-> q, tf |-> frame, ret |-> None]
       ELSE LET ready_process == is_ready(q[i], t).proc
            IN [processes |->
                    <<[ready_process EXCEPT !.state = Running]>> \o Remove(q, i),
                tf |-> ready_process.context,
                ret |-> Some(ready_process.context.tpidr)]

\* The processes that an attempt of switch_to at time t polls, in order.
polled_by(q, t) ==
    LET i == first_ready(q, t, 1)
    IN IF i = 0 THEN Pids(q) ELSE SubSeq(Pids(q), 1, i)

RECURSIVE first_dead(_, _)
first_dead(q, i) ==
    IF i > Len(q) THEN 0
    ELSE IF q[i].state.tag = "Dead" THEN i
    ELSE first_dead(q, i + 1)

\* Scheduler::kill
kill(q, frame) ==
    LET out == schedule_out(q, Dead, frame)
        i == first_dead(out.processes, 1)
    IN IF ~out.ret THEN [processes |-> q, ret |-> None]
       ELSE IF i = 0 THEN [processes |-> out.processes, ret |-> None]
       ELSE [processes |-> Remove(out.processes, i),
             ret |-> Some(out.processes[i].context.tpidr)]

\* ---------------------------------------------------------------- history
\* What the last operation did: its name, the tpidr of the trap frame it was
\* entered with, the PIDs its attempt of switch_to polled, in the order of
\* the polls, and what it returned.
Record(op, frame, polled, ret) ==
    [op |-> op, caller |-> frame.tpidr, polled |-> polled, ret |-> ret]

Range(s) == {s[i] : i \in 1..Len(s)}

ReadyPids(q) == {q[i].context.tpidr : i \in {j \in 1..Len(q) : q[j].state.tag = "Ready"}}

\* owed after the process of frame was scheduled out into the queue mid.
OwedOut(o, mid, frame, done) ==
    IF ~done THEN o
    ELSE {pr \in o : pr[1] # frame.tpidr}
             \cup {<<frame.tpidr, q>> : q \in ReadyPids(mid) \ {frame.tpidr}}

\* owed after an attempt of switch_to polled the PIDs of the sequence polled.
OwedPolled(o, polled) == {pr \in o : pr[2] \notin Range(polled)}

\* slept after an operation returned ret: the process it resumed runs.
SleptResumed(sl, ret) == {pr \in sl : Some(pr[1]) # ret}

\* The queue holds a Running head and Ready processes only.
AllReadyButHead(q) ==
    /\ Len(q) > 0
    /\ q[1].state.tag = "Running"
    /\ \A i \in 2..Len(q) : q[i].state.tag = "Ready"

NoVisit == [n |-> 0, seen |-> <<>>]

\* visit after a timer tick that found the queue pre and switched to ret.
VisitTick(v, pre, ret) ==
    IF ret = None THEN NoVisit
    ELSE IF v.n > 0 /\ Len(v.seen) < v.n
    THEN [v EXCEPT !.seen = Append(@, ret[1])]
    ELSE IF AllReadyButHead(pre) THEN [n |-> Len(pre), seen |-> <<ret[1]>>]
    ELSE NoVisit

\* ------------------------------------------------------------------- Init
\* The state after GlobalScheduler::initialize has armed the first tick and
\* created the scheduler; the processes are added by Add.
InitKernel ==
    /\ processes = <<>>
    /\ last_id \in {None, Some(NearMax)}
    /\ tf = TrapFrameZeroed
    /\ pc = "boot"
    /\ now = BootTime
    /\ compare = tick_in(now)
    /\ nadded = 0
    /\ last = Record("init", TrapFrameZeroed, <<>>, None)
    /\ owed = {}
    /\ visit = NoVisit
    /\ slept = {}
    /\ locks = LocksIdle
    /\ heap = HeapIdle
    /\ heapx = NoCalls
    /\ vm = NoVm
    /\ kpt = NoKpt
    /\ exc = NoExc
    /\ sq = NoSq
    /\ loc = NoLoc

\* The kernel, with map_to_bin and map_to_size not in use.
Init == InitKernel /\ calc = NoCalc

\* The trap frames a kernel entry can find: the user program may have
\* written x0 since it was resumed.
EntryFrames == {tf} \cup {[tf EXCEPT !.x0 = U64FromNat(v)] : v \in UserVals}

\* ---------------------------------------------------------------- actions
\* GlobalScheduler::add
Add ==
    /\ nadded < MaxAdds
    /\ LET r == add(processes, last_id, NewProcess)
       IN /\ processes' = r.processes
          /\ last_id' = r.last_id
          /\ nadded' = IF r.ret = None THEN nadded ELSE nadded + 1
          /\ last' = Record("add", tf, <<>>, r.ret)
    /\ visit' = NoVisit
    /\ UNCHANGED <<tf, pc, now, compare, owed, slept, notSched>>

\* One iteration of the loop of GlobalScheduler::switch_to on the queue mid,
\* entered by operation op with the trap frame `frame`.
Attempt(op, frame, mid) ==
    LET r == switch_to(mid, frame, now)
        polled == polled_by(mid, now)
    IN /\ processes' = r.processes
       /\ tf' = r.tf
       /\ pc' = IF r.ret = None THEN "sched" ELSE "user"
       /\ last' = Record(op, frame, polled, r.ret)

\* GlobalScheduler::switch(new_state, frame): schedule_out, then the first
\* iteration of the loop of switch_to.
Switch(op, new_state, frame) ==
    LET out == schedule_out(processes, new_state, frame)
    IN /\ Attempt(op, frame, out.processes)
       /\ owed' = OwedPolled(OwedOut(owed, out.processes, frame, out.ret),
                             polled_by(out.processes, now))

\* GlobalScheduler::start: switch_to on a default trap frame.
Start ==
    /\ pc = "boot"
    /\ Attempt("start", tf, processes)
    /\ owed' = OwedPolled(owed, polled_by(processes, now))
    /\ visit' = NoVisit
    /\ slept' = SleptResumed(slept, last'.ret)
    /\ UNCHANGED <<last_id, now, compare, nadded, notSched>>

\* A further iteration of the loop of GlobalScheduler::switch_to, after wfe.
Retry ==
    /\ pc = "sched"
    /\ Attempt("retry", tf, processes)
    /\ owed' = OwedPolled(owed, polled_by(processes, now))
    /\ visit' = NoVisit
    /\ slept' = SleptResumed(slept, last'.ret)
    /\ UNCHANGED <<last_id, now, compare, nadded, notSched>>

\* timer_handler on the trap frame `frame`: arm the next tick, then
\* switch(Ready, tf).
timer_handler(frame) ==
    /\ compare' = tick_in(now)
    /\ Switch("tick", Ready, frame)
    /\ visit' = VisitTick(visit, processes, last'.ret)
    /\ slept' = SleptResumed(slept, last'.ret)
    /\ UNCHANGED <<last_id, now, nadded, notSched>>

\* The timer interrupt, taken at EL0 when timer 1 is pending.
TimerTick ==
    /\ pc = "user"
    /\ IrqPending
    /\ \E frame \in EntryFrames : timer_handler(frame)

\* A sys_sleep that leaves the timer as it is.
sys_sleep_unarmed(frame) ==
    LET start == current_millis(now)
        ms == AsU32(frame.x0)
    IN /\ compare' = compare
       /\ Switch("sleep", Waiting(start, ms), frame)
       /\ slept' = SleptResumed(slept \cup {<<frame.tpidr, now>>}, last'.ret)
       /\ visit' = NoVisit
       /\ UNCHANGED <<last_id, now, nadded, notSched>>

\* sys_sleep on the trap frame `frame`, with the milliseconds in x0.
sys_sleep(frame) ==
    LET start == current_millis(now)
        ms == AsU32(frame.x0)
    IN /\ compare' = tick_in(now)
       /\ Switch("sleep", Waiting(start, ms), frame)
       /\ slept' = SleptResumed(slept \cup {<<frame.tpidr, now>>}, last'.ret)
       /\ visit' = NoVisit
       /\ UNCHANGED <<last_id, now, nadded, notSched>>

\* svc 1.
SysSleep ==
    /\ pc = "user"
    /\ ~IrqPending
    /\ \E frame \in EntryFrames : sys_sleep(frame)

\* sys_exit: svc 3.
SysExit ==
    /\ pc = "user"
    /\ ~IrqPending
    /\ \E frame \in EntryFrames :
          /\ compare' = tick_in(now)
          /\ Switch("exit", Dead, frame)
    /\ visit' = NoVisit
    /\ slept' = SleptResumed(slept, last'.ret)
    /\ UNCHANGED <<last_id, now, nadded, notSched>>

\* GlobalScheduler::kill on the trap frame of the process that runs; its
\* caller then has to pick the next process in the loop of switch_to.
Kill ==
    /\ pc = "user"
    /\ \E frame \in EntryFrames :
          LET r == kill(processes, frame)
          IN /\ processes' = r.processes
             /\ tf' = frame
             /\ last' = Record("kill", frame, <<>>, r.ret)
             /\ owed' = {pr \in owed : pr[1] # frame.tpidr}
    /\ pc' = "sched"
    /\ visit' = NoVisit
    /\ UNCHANGED <<last_id, now, compare, nadded, slept, notSched>>

\* The system timer counts on. While a process runs at EL0 interrupts are
\* unmasked, so a pending timer interrupt is taken before time moves on.
Advance ==
    /\ (now - BootTime) \div ClockStep < MaxSteps
    /\ pc = "user" => ~IrqPending
    /\ now' = now + ClockStep
    /\ UNCHANGED <<processes, last_id, tf, pc, compare, nadded, last, owed,
                   visit, slept, notSched>>

Next ==
    \/ Add
    \/ Start
    \/ Retry
    \/ TimerTick
    \/ SysSleep
    \/ SysExit
    \/ Kill
    \/ Advance

Spec == Init /\ [][Next]_vars

\* The system timer counts on in steps shorter than TICK, so that a process
\* can enter the kernel in the middle of its quantum.
FineStep == 4000
MaxFineSteps == 4
AdvanceFine ==
    /\ (now - BootTime) \div FineStep < MaxFineSteps
    /\ pc = "user" => ~IrqPending
    /\ now' = now + FineStep
    /\ UNCHANGED <<processes, last_id, tf, pc, compare, nadded, last, owed,
                   visit, slept, notSched>>

\* The kernel entries that arm the timer, with the fine clock.
NextArm ==
    \/ Add
    \/ Start
    \/ Retry
    \/ TimerTick
    \/ SysSleep
    \/ SysExit
    \/ AdvanceFine

SpecArm == Init /\ [][NextArm]_vars

\* The loop of GlobalScheduler::switch_to goes on after wfe, and the system
\* timer counts on.
SpecLive == Spec /\ WF_vars(Retry) /\ WF_vars(Advance)


\* ------------------------------------------------- a sleeper among spinners
\* The queue after n + 1 calls of add and start: PID 0 runs, the PIDs 1..n
\* are Ready behind it.
SleepQueue(n) ==
    <<[NewProcess EXCEPT !.state = Running]>>
        \o [i \in 1..n |-> [NewProcess EXCEPT !.context.tpidr = U64FromNat(i)]]

InitSleep ==
    \E n \in 1..MaxOthers :
       /\ processes = SleepQueue(n)
       /\ last_id = Some(U64FromNat(n))
       /\ tf = TrapFrameZeroed
       /\ pc = "user"
       /\ now = BootTime
       /\ compare = tick_in(now)
       /\ nadded = n + 1
       /\ last = Record("start", TrapFrameZeroed, <<U64Zero>>, Some(U64Zero))
       /\ owed = {}
       /\ visit = NoVisit
       /\ slept = {}
       /\ locks = LocksIdle
       /\ heap = HeapIdle
       /\ heapx = NoCalls
       /\ vm = NoVm
       /\ kpt = NoKpt
       /\ exc = NoExc
       /\ sq = NoSq
       /\ loc = NoLoc
       /\ calc = NoCalc

\* PID 0 has slept and a timer tick has made it Running again.
SleeperResumed == last.op = "tick" /\ last.ret = Some(U64Zero)

\* PID 0 calls sleep(SleepMs).
SleepCall ==
    /\ pc = "user"
    /\ last.op = "start"
    /\ sys_sleep([tf EXCEPT !.x0 = U64FromNat(SleepMs)])

\* The other processes spin until the timer fires: it fires every TICK.
SleepAdvance ==
    /\ pc = "user"
    /\ last.op # "start"
    /\ ~SleeperResumed
    /\ ~IrqPending
    /\ now' = compare
    /\ UNCHANGED <<processes, last_id, tf, pc, compare, nadded, last, owed,
                   visit, slept, notSched>>

\* The timer interrupt preempts a spinning process.
SleepTick ==
    /\ pc = "user"
    /\ IrqPending
    /\ ~SleeperResumed
    /\ timer_handler(tf)

NextSleep ==
    \/ SleepCall
    \/ SleepAdvance
    \/ SleepTick

SpecSleep == InitSleep /\ [][NextSleep]_vars



\* ---------------------------------------------------- every system call
\* A getpid that returns the PID 0.
sys_getpid_zero(frame) == [frame EXCEPT !.x0 = U64Zero]

\* sys_getpid
sys_getpid(frame) == [frame EXCEPT !.x0 = frame.tpidr]

\* sys_time: Duration::as_secs and Duration::subsec_millis of the timer.
sys_time(frame, t) ==
    [frame EXCEPT !.x0 = U64FromNat(t \div MicrosPerSec),
                  !.x1 = U64FromNat((t % MicrosPerSec) \div MicrosPerMilli)]

\* sys_write: the byte goes to the console; the frame is not written.
sys_write(frame) == frame

\* A system call that does not block: handle_syscall returns to the caller.
Returns(op, frame) ==
    /\ tf' = frame
    /\ last' = Record(op, frame, <<>>, Some(frame.tpidr))
    /\ UNCHANGED <<processes, last_id, pc, now, compare, nadded, owed, visit,
                   slept, notSched>>

\* svc 2
SysTime ==
    /\ pc = "user"
    /\ ~IrqPending
    /\ \E frame \in EntryFrames : Returns("time", sys_time(frame, now))

\* svc 4
SysWrite ==
    /\ pc = "user"
    /\ ~IrqPending
    /\ \E frame \in EntryFrames : Returns("write", sys_write(frame))

\* svc 5
SysGetpid ==
    /\ pc = "user"
    /\ ~IrqPending
    /\ \E frame \in EntryFrames : Returns("getpid", sys_getpid(frame))

\* The queue after start, with one to MaxSysOthers processes behind the
\* one that runs.
InitSys ==
    \E n \in 1..MaxSysOthers :
       /\ processes = SleepQueue(n)
       /\ last_id = Some(U64FromNat(n))
       /\ tf = TrapFrameZeroed
       /\ pc = "user"
       /\ now = BootTime
       /\ compare = tick_in(now)
       /\ nadded = n + 1
       /\ last = Record("start", TrapFrameZeroed, <<U64Zero>>, Some(U64Zero))
       /\ owed = {}
       /\ visit = NoVisit
       /\ slept = {}
       /\ locks = LocksIdle
       /\ heap = HeapIdle
       /\ heapx = NoCalls
       /\ vm = NoVm
       /\ kpt = NoKpt
       /\ exc = NoExc
       /\ sq = NoSq
       /\ loc = NoLoc
       /\ calc = NoCalc

NextSys ==
    \/ SysSleep
    \/ SysTime
    \/ SysExit
    \/ SysWrite
    \/ SysGetpid
    \/ TimerTick
    \/ Retry
    \/ Advance

SpecSys == InitSys /\ [][NextSys]_vars


\* ------------------------------------------------- allocator: size classes
\* 2^n for a shift within one limb.
Pow2(n) ==
    <<1, 2, 4, 8, 16, 32, 64, 128, 256, 512, 1024, 2048, 4096, 8192, 16384,
      32768, 65536>>[n + 1]

\* s >> k on usize, for the shifts 0, 1, 2, 4, 8, 16 and 32 of map_to_bin.
Shr(s, k) ==
    IF k = 0 THEN s
    ELSE IF k = 32 THEN <<0, 0, s[1], s[2]>>
    ELSE IF k = 16 THEN <<0, s[1], s[2], s[3]>>
    ELSE [i \in 1..4 |->
             (s[i] \div Pow2(k))
                 + (IF i = 1 THEN 0 ELSE (s[i - 1] % Pow2(k)) * Pow2(16 - k))]

\* (s & t[i]) != 0, where t[i] is the mask of the bits j .. 2j-1.
MaskedBits(s, j) ==
    IF j = 32 THEN s[1] # 0 \/ s[2] # 0
    ELSE IF j = 16 THEN s[3] # 0
    ELSE (s[4] \div Pow2(j)) % Pow2(j) # 0

\* (s & (s - 1)) == 0 with the wrapping s - 1 of a build without overflow
\* checks: s is 0 or has exactly one bit set.
AndPredIsZero(s) ==
    \/ s = U64Zero
    \/ \E i \in 1..4 :
          /\ \A j \in (1..4) \ {i} : s[j] = 0
          /\ \E e \in 0..15 : s[i] = Pow2(e)

\* The loop of map_to_bin from mask j on: y is the logarithm so far.
RECURSIVE map_to_bin_loop(_, _, _)
map_to_bin_loop(s, y, j) ==
    IF j = 0 THEN y
    ELSE LET k == IF MaskedBits(s, j) THEN j ELSE 0
         IN map_to_bin_loop(Shr(s, k), y + k, j \div 2)

\* map_to_bin: the class of a size, ceil(log2(size)) saturating_sub 3.
map_to_bin(size) ==
    LET y == map_to_bin_loop(size, IF AndPredIsZero(size) THEN 0 ELSE 1, 32)
    IN IF y < 3 THEN 0 ELSE y - 3

\* map_to_size: 1 << (bin + 3) on usize; a shift by 64 or more takes the
\* amount modulo 64 in a build without overflow checks.
map_to_size(bin) ==
    LET n == (bin + 3) % 64
    IN [i \in 1..4 |-> IF 4 - (n \div 16) = i THEN Pow2(n % 16) ELSE 0]


\* ------------------------------------------------------ allocator: blocks
\* util::align_up on an address and a power of two.
align_up(addr, align) ==
    IF addr % align = 0 THEN addr ELSE addr + (align - (addr % align))

\* util::is_aligned
is_aligned(addr, align) == addr % align = 0

\* The class of a size and the size of a class, for the sizes of the heap
\* of the model.
bin_of(size) == map_to_bin(U64FromNat(size))
size_of(bin) == LowNat(map_to_size(bin))

\* A list that takes a block at its tail.
push_back(list, block) == Append(list, block)

\* LinkedList::push: the block becomes the head of the list.
push(list, block) == <<block>> \o list

\* The first node, in list order, that lies right before or right behind
\* the block; 0 if there is none.
RECURSIVE first_neighbor(_, _, _, _)
first_neighbor(list, block, curr_size, i) ==
    IF i > Len(list) THEN 0
    ELSE IF list[i] + curr_size = block \/ block + curr_size = list[i] THEN i
    ELSE first_neighbor(list, block, curr_size, i + 1)

\* An insert_block that pushes without merging.
insert_block_unmerged(bins, block, size) ==
    [bins EXCEPT ![bin_of(size) + 1] = push(@, block)]

\* An insert_block that inserts the doubled block at the upper one of the
\* two addresses.
RECURSIVE insert_block_upper(_, _, _)
insert_block_upper(bins, block, size) ==
    LET bin_index == bin_of(size)
        curr_size == size_of(bin_index)
        list == bins[bin_index + 1]
        i == first_neighbor(list, block, curr_size, 1)
    IN IF i = 0
       THEN [bins EXCEPT ![bin_index + 1] = push(list, block)]
       ELSE LET popped == [bins EXCEPT ![bin_index + 1] = Remove(list, i)]
            IN IF list[i] + curr_size = block
               THEN insert_block_upper(popped, block, size * 2)
               ELSE insert_block_upper(popped, list[i], size * 2)

\* Allocator::insert_block: merge with a neighbor of the same class and
\* insert the doubled block, or push the block.
RECURSIVE insert_block(_, _, _)
insert_block(bins, block, size) ==
    LET bin_index == bin_of(size)
        curr_size == size_of(bin_index)
        list == bins[bin_index + 1]
        i == first_neighbor(list, block, curr_size, 1)
    IN IF i = 0
       THEN [bins EXCEPT ![bin_index + 1] = push(list, block)]
       ELSE LET popped == [bins EXCEPT ![bin_index + 1] = Remove(list, i)]
            IN IF list[i] + curr_size = block
               THEN insert_block(popped, list[i], size * 2)
               ELSE insert_block(popped, block, size * 2)

\* A reinsert_block that drops the block.
reinsert_block_dropped(bins, block, bin_index, size) == bins

\* Allocator::reinsert_block
RECURSIVE reinsert_block(_, _, _, _)
reinsert_block(bins, block, bin_index, size) ==
    IF size = 0 THEN bins
    ELSE LET insert_size == size_of(bin_index)
         IN reinsert_block(insert_block(bins, block, insert_size),
                           block + insert_size, bin_index + 1,
                           size - insert_size)

\* The first node of the list that is aligned; 0 if there is none.
RECURSIVE first_aligned(_, _, _)
first_aligned(list, align, i) ==
    IF i > Len(list) THEN 0
    ELSE IF is_aligned(list[i], align) THEN i
    ELSE first_aligned(list, align, i + 1)

\* The first class from curr_bin on with an aligned node; NumBins if there
\* is none.
RECURSIVE first_bin(_, _, _)
first_bin(bins, align, curr_bin) ==
    IF curr_bin >= NumBins THEN NumBins
    ELSE IF first_aligned(bins[curr_bin + 1], align, 1) # 0 THEN curr_bin
    ELSE first_bin(bins, align, curr_bin + 1)

\* A get_block_from_free_mem that does not look at free_end.
get_block_unchecked(h, layout) ==
    LET block_start == align_up(h.free_start, layout.align)
        res == block_start + size_of(bin_of(layout.size))
    IN [heap |-> [h EXCEPT !.free_start = res], ret |-> block_start,
        from |-> NumBins]

\* A get_block_from_free_mem that leaves free_start where it was.
get_block_from_free_mem_unmoved(h, layout) ==
    LET block_start == align_up(h.free_start, layout.align)
        res == block_start + size_of(bin_of(layout.size))
    IN [heap |-> h, ret |-> IF res > h.free_end THEN Null ELSE block_start,
        from |-> NumBins]

\* Allocator::get_block_from_free_mem
get_block_from_free_mem(h, layout) ==
    LET block_start == align_up(h.free_start, layout.align)
        desired_size == size_of(bin_of(layout.size))
        res == block_start + desired_size
    IN IF res > h.free_end
       THEN [heap |-> h, ret |-> Null, from |-> NumBins]
       ELSE [heap |-> [h EXCEPT !.free_start = res],
             ret |-> block_start, from |-> NumBins]

\* Allocator::alloc; `from` is the class that served the request, NumBins
\* for the free memory behind free_start.
alloc(h, layout) ==
    LET starting_bin_index == bin_of(layout.size)
        desired_size == size_of(starting_bin_index)
        curr_bin == first_bin(h.bins, layout.align, starting_bin_index)
    IN IF curr_bin >= NumBins THEN get_block_from_free_mem(h, layout)
       ELSE LET list == h.bins[curr_bin + 1]
                i == first_aligned(list, layout.align, 1)
                return_block == list[i]
                popped == [h.bins EXCEPT ![curr_bin + 1] = Remove(list, i)]
            IN IF curr_bin = starting_bin_index
               THEN [heap |-> [h EXCEPT !.bins = popped],
                     ret |-> return_block, from |-> curr_bin]
               ELSE [heap |-> [h EXCEPT !.bins =
                                  reinsert_block(popped,
                                                 return_block + desired_size,
                                                 starting_bin_index,
                                                 size_of(curr_bin) - desired_size)],
                     ret |-> return_block, from |-> curr_bin]

\* A dealloc that gives the last block back to the free memory.
dealloc_rewind(h, ptr, layout) ==
    IF ptr + size_of(bin_of(layout.size)) = h.free_start
    THEN [h EXCEPT !.free_start = ptr]
    ELSE [h EXCEPT !.bins = insert_block(@, ptr, size_of(bin_of(layout.size)))]

\* A dealloc that forgets the block.
dealloc_leak(h, ptr, layout) == h

\* Allocator::dealloc
dealloc(h, ptr, layout) ==
    [h EXCEPT !.bins = insert_block(@, ptr, size_of(bin_of(layout.size)))]

\* The layouts of the requests.
Layout(size, align) == [size |-> size, align |-> align]
Layouts == {Layout(8, 8), Layout(16, 8), Layout(64, 8), Layout(8, 16)}

\* History: the loop p = alloc(L); dealloc(p, L) that the calls so far
\* make: stage 1 after alloc, 2 after dealloc; adv counts the iterations
\* that moved free_start, settled says that one did not; merged says that the last dealloc found a neighbor
\* to merge with, again that the last alloc followed a dealloc of the
\* loop, and moved that it did not return the block freed by it.
RunAlloc(run, layout, ptr, grew) ==
    IF run.stage = 2 /\ run.layout = layout
    THEN IF ptr = Null
         THEN [NoRun EXCEPT !.again = TRUE, !.moved = TRUE,
                            !.merged = run.merged]
         ELSE [run EXCEPT !.stage = 1, !.ptr = ptr,
                          !.adv = IF grew THEN @ + 1 ELSE @,
                          !.settled = @ \/ ~grew,
                          !.again = TRUE,
                          !.moved = ptr # run.ptr]
    ELSE IF ptr = Null THEN NoRun
    ELSE [NoRun EXCEPT !.stage = 1, !.layout = layout, !.ptr = ptr,
                       !.adv = IF grew THEN 1 ELSE 0, !.settled = ~grew]

RunDealloc(run, block, merged) ==
    IF run.stage = 1 /\ block = [ptr |-> run.ptr, layout |-> run.layout]
    THEN [run EXCEPT !.stage = 2, !.again = FALSE, !.moved = FALSE,
                     !.merged = merged]
    ELSE NoRun

\* History: the scenario of 8-byte blocks taken from the new heap and
\* freed in the reverse order.
ScenOff == [stage |-> "off", ptrs |-> <<>>]

ScenAlloc(scen, layout, ptr) ==
    IF scen.stage = "alloc" /\ layout = Layout(8, 8) /\ ptr # Null
       /\ Len(scen.ptrs) < 6
    THEN [scen EXCEPT !.ptrs = Append(@, ptr)]
    ELSE ScenOff

ScenDealloc(scen, block) ==
    IF /\ scen.stage = "free" \/ (scen.stage = "alloc" /\ Len(scen.ptrs) = 6)
       /\ scen.ptrs # <<>>
       /\ block = [ptr |-> scen.ptrs[Len(scen.ptrs)], layout |-> Layout(8, 8)]
    THEN [stage |-> "free", ptrs |-> SubSeq(scen.ptrs, 1, Len(scen.ptrs) - 1)]
    ELSE ScenOff

\* GlobalAlloc::alloc with a layout the caller may pass: size > 0, align a
\* power of two.
HeapAlloc ==
    /\ Cardinality(heapx.live) < MaxLive
    /\ \E layout \in Layouts :
          \E r \in {alloc(heap, layout)} :
             /\ heap' = r.heap
             /\ heapx' =
                   [live |-> IF r.ret = Null THEN heapx.live
                             ELSE heapx.live
                                      \cup {[ptr |-> r.ret, layout |-> layout]},
                    run |-> RunAlloc(heapx.run, layout, r.ret,
                                     r.heap.free_start # heap.free_start),
                    scen |-> ScenOff,
                    from |-> IF r.ret = Null THEN NoBin ELSE r.from,
                    failed |-> IF r.ret = Null THEN layout ELSE NoLayout,
                    top |-> IF r.ret = Null THEN heapx.top
                            ELSE Max(heapx.top, r.ret + layout.size)]
    /\ UNCHANGED notHeap

\* GlobalAlloc::dealloc of a block that is allocated, with its layout.
HeapDealloc ==
    /\ \E block \in heapx.live :
          /\ heap' = dealloc(heap, block.ptr, block.layout)
          /\ heapx' =
                [live |-> heapx.live \ {block},
                 run |-> RunDealloc(
                            heapx.run, block,
                            first_neighbor(
                                heap.bins[bin_of(block.layout.size) + 1],
                                block.ptr,
                                size_of(bin_of(block.layout.size)), 1) # 0),
                 scen |-> ScenOff,
                 from |-> NoBin,
                 failed |-> NoLayout,
                 top |-> heapx.top]
    /\ UNCHANGED notHeap

NextHeap ==
    \/ HeapAlloc
    \/ HeapDealloc

\* The kernel after ALLOCATOR.initialize(), with a new scheduler.
InitHeap == Init /\ last_id = None

SpecHeap == InitHeap /\ [][NextHeap]_vars

\* A kernel that allocates and frees blocks of 8 bytes only.
SmallAlloc ==
    /\ Cardinality(heapx.live) < MaxSmall
    /\ \E r \in {alloc(heap, Layout(8, 8))} :
          /\ heap' = r.heap
          /\ heapx' =
                [live |-> IF r.ret = Null THEN heapx.live
                          ELSE heapx.live
                                   \cup {[ptr |-> r.ret,
                                          layout |-> Layout(8, 8)]},
                 run |-> NoRun,
                 scen |-> ScenAlloc(heapx.scen, Layout(8, 8), r.ret),
                 from |-> IF r.ret = Null THEN NoBin ELSE r.from,
                 failed |-> IF r.ret = Null THEN Layout(8, 8) ELSE NoLayout,
                 top |-> IF r.ret = Null THEN heapx.top
                         ELSE Max(heapx.top, r.ret + 8)]
    /\ UNCHANGED notHeap

SmallDealloc ==
    /\ \E block \in heapx.live :
          /\ heap' = dealloc(heap, block.ptr, block.layout)
          /\ heapx' = [live |-> heapx.live \ {block},
                       run |-> NoRun,
                       scen |-> ScenDealloc(heapx.scen, block),
                       from |-> NoBin,
                       failed |-> NoLayout,
                       top |-> heapx.top]
    /\ UNCHANGED notHeap

NextSmall ==
    \/ SmallAlloc
    \/ SmallDealloc

SpecSmall == InitHeap /\ [][NextSmall]_vars


\* --------------------------------------------- allocator: every usize size
\* 1 << e on usize, e < 64.
OneHot(e) == [i \in 1..4 |-> IF 4 - (e \div 16) = i THEN Pow2(e % 16) ELSE 0]

\* (1 << e) - 1 on usize, e < 64.
Ones(e) ==
    [i \in 1..4 |->
        LET lo == 16 * (4 - i)
        IN IF e <= lo THEN 0
           ELSE IF e >= lo + 16 THEN Limb - 1
           ELSE Pow2(e - lo) - 1]

\* usize::checked_add
checked_add(a, b) ==
    LET s4 == a[4] + b[4]
        s3 == a[3] + b[3] + s4 \div Limb
        s2 == a[2] + b[2] + s3 \div Limb
        s1 == a[1] + b[1] + s2 \div Limb
    IN IF s1 >= Limb THEN None
       ELSE Some(<<s1 % Limb, s2 % Limb, s3 % Limb, s4 % Limb>>)

\* The sizes a caller may pass: 0, the powers of two, the sizes right
\* below and right above them, and usize::MAX.
SizeInputs ==
    {U64Zero, U64Max}
        \cup {OneHot(e) : e \in 0..63}
        \cup {Ones(e) : e \in 1..63}
        \cup {[OneHot(e) EXCEPT ![4] = @ + 1] : e \in 1..63}

\* A size that a core::alloc::Layout can have and alloc accepts: above 0,
\* at most isize::MAX.
IsLayoutSize(size) == size # U64Zero /\ size[1] < 32768

\* The heaps: 1 GiB of memory or 16 GiB, behind a kernel image of 64 KiB.
HeapStarts == {OneHot(16)}
HeapEnds == {OneHot(30), OneHot(34)}

\* map_to_bin in a build with or without overflow checks: `s - 1`
\* overflows for s = 0. None stands for the panic.
map_to_bin_build(size, checks) ==
    IF checks /\ size = U64Zero THEN None ELSE Some(map_to_bin(size))

\* map_to_size in a build with or without overflow checks: the shift
\* overflows for bin + 3 >= 64.
map_to_size_build(bin, checks) ==
    IF checks /\ bin + 3 >= 64 THEN None ELSE Some(map_to_size(bin))

\* align_up(addr, 8) on usize for an address below usize::MAX - 8.
align_up_usize(addr) ==
    IF addr[4] % 8 = 0 THEN addr
    ELSE checked_add(addr, U64FromNat(8 - (addr[4] % 8)))[1]

\* Allocator::get_block_from_free_mem on usize, for a layout aligned to 8:
\* the block, or None.
get_block_usize(free_start, free_end, desired_size) ==
    LET block_start == align_up_usize(free_start)
        res == checked_add(block_start, desired_size)
    IN IF res = None THEN None
       ELSE IF U64Less(free_end, res[1]) THEN None
       ELSE Some(block_start)

\* Allocator::insert_block at self.bins[bin_index]: the index is checked
\* against the length of the array; FALSE stands for the panic.
insert_block_indexed(bin_index) == bin_index < NumBins

\* The kernel is built, with or without overflow checks, and the
\* allocator is new; a caller has a size.
InitBin ==
    /\ InitKernel
    /\ last_id = None
    /\ \E checks \in BOOLEAN, start \in HeapStarts, end \in HeapEnds,
          size \in SizeInputs :
          calc = [NoCalc EXCEPT !.stage = "in", !.checks = checks,
                                !.start = start, !.end = end, !.size = size]

Panic(at) == [calc EXCEPT !.stage = "panic", !.at = at]

\* map_to_bin(size)
MapToBin ==
    /\ calc.stage = "in"
    /\ \E b \in {map_to_bin_build(calc.size, calc.checks)} :
          calc' = IF b = None THEN Panic("map_to_bin")
                  ELSE [calc EXCEPT !.stage = "bin", !.bin = b[1]]
    /\ UNCHANGED <<schedVars, locks, heap, heapx, vm, kpt, exc, sq, loc>>

\* map_to_size(bin) of that class.
MapToSize ==
    /\ calc.stage = "bin"
    /\ \E c \in {map_to_size_build(calc.bin, calc.checks)} :
          calc' = IF c = None THEN Panic("map_to_size")
                  ELSE [calc EXCEPT !.stage = "size", !.csize = c[1]]
    /\ UNCHANGED <<schedVars, locks, heap, heapx, vm, kpt, exc, sq, loc>>

\* Allocator::alloc of a layout of that size, aligned to 8, on the new
\* allocator: every free list is empty, the block is from the free memory
\* or null.
AllocOfSize ==
    /\ calc.stage = "size"
    /\ IsLayoutSize(calc.size)
    /\ \E b \in {map_to_bin_build(calc.size, calc.checks)} :
          IF b = None THEN calc' = Panic("map_to_bin")
          ELSE \E c \in {map_to_size_build(b[1], calc.checks)} :
                  IF c = None THEN calc' = Panic("map_to_size")
                  ELSE \E r \in {get_block_usize(calc.start, calc.end, c[1])} :
                          calc' = [calc EXCEPT
                                      !.stage = "alloc",
                                      !.ret = IF r = None THEN U64Zero
                                              ELSE r[1]]
    /\ UNCHANGED <<schedVars, locks, heap, heapx, vm, kpt, exc, sq, loc>>

\* Allocator::dealloc of the block with its layout.
DeallocOfSize ==
    /\ calc.stage = "alloc"
    /\ calc.ret # U64Zero
    /\ \E b \in {map_to_bin_build(calc.size, calc.checks)} :
          calc' = IF b = None THEN Panic("map_to_bin")
                  ELSE IF insert_block_indexed(b[1])
                       THEN [calc EXCEPT !.stage = "free"]
                       ELSE Panic("insert_block")
    /\ UNCHANGED <<schedVars, locks, heap, heapx, vm, kpt, exc, sq, loc>>

\* size * 2 on usize: None stands for the panic of a build with overflow
\* checks, and a build without wraps.
double_build(size, checks) ==
    LET d == checked_add(size, size)
    IN IF d # None THEN d
       ELSE IF checks THEN None
       ELSE Some([i \in 1..4 |->
                    (2 * size[i] + (IF i < 4 /\ size[i + 1] >= 32768
                                    THEN 1 ELSE 0)) % Limb])

\* A second Allocator::alloc of the same layout, while the first block is
\* allocated: the free lists are empty, free_start is behind the first
\* block.
AllocSecond ==
    /\ calc.stage = "alloc"
    /\ calc.ret # U64Zero
    /\ \E r \in {get_block_usize(checked_add(calc.ret, calc.csize)[1],
                                  calc.end, calc.csize)} :
          calc' = [calc EXCEPT !.stage = "alloc2",
                               !.ret2 = IF r = None THEN U64Zero ELSE r[1]]
    /\ UNCHANGED <<schedVars, locks, heap, heapx, vm, kpt, exc, sq, loc>>

\* Allocator::dealloc of the second block: the list of its class is
\* empty, insert_block pushes it.
DeallocSecond ==
    /\ calc.stage = "alloc2"
    /\ calc.ret2 # U64Zero
    /\ calc' = IF insert_block_indexed(calc.bin)
               THEN [calc EXCEPT !.stage = "free2"]
               ELSE Panic("insert_block")
    /\ UNCHANGED <<schedVars, locks, heap, heapx, vm, kpt, exc, sq, loc>>

\* Allocator::dealloc of the first block then: insert_block finds the
\* second block right behind it, pops it and inserts the first block with
\* size * 2, into the list of the next class.
DeallocFirst ==
    /\ calc.stage = "free2"
    /\ checked_add(calc.ret, calc.csize) = Some(calc.ret2)
    /\ \E d \in {double_build(calc.csize, calc.checks)} :
          IF d = None THEN calc' = Panic("size * 2")
          ELSE \E b \in {map_to_bin_build(d[1], calc.checks)} :
                  calc' = IF b = None THEN Panic("map_to_bin")
                          ELSE IF insert_block_indexed(b[1])
                               THEN [calc EXCEPT !.stage = "merged",
                                                 !.bin = b[1]]
                               ELSE Panic("insert_block")
    /\ UNCHANGED <<schedVars, locks, heap, heapx, vm, kpt, exc, sq, loc>>

NextBin ==
    \/ MapToBin
    \/ MapToSize
    \/ AllocOfSize
    \/ DeallocOfSize
    \/ AllocSecond
    \/ DeallocSecond
    \/ DeallocFirst

SpecBin == InitBin /\ [][NextBin]_vars

\* ------------------------------------------------- vm: page table entries
\* The state outside the user page table.
notVm == <<schedVars, locks, heap, heapx, calc, kpt, exc, sq, loc>>

\* The fields of a RawL3Entry (aarch64::vmsa): the lowest bit of each and
\* its width. ADDR holds the bits [47:16] of a physical address; the
\* addresses of the model are below 2^31.
Fields == {"VALID", "TYPE", "ATTR", "AP", "SH", "AF", "ADDR"}
FieldShift ==
    [VALID |-> 0, TYPE |-> 1, ATTR |-> 2, AP |-> 6, SH |-> 8, AF |-> 10,
     ADDR |-> 16]
FieldWidth ==
    [VALID |-> 1, TYPE |-> 1, ATTR |-> 3, AP |-> 2, SH |-> 2, AF |-> 1,
     ADDR |-> 32]

\* val cut to the width of the field.
InField(val, f) ==
    IF FieldWidth[f] >= 31 THEN val ELSE val % Pow2(FieldWidth[f])

\* RawL3Entry::new(0): an entry is kept as the value of each field.
ZeroEntry == [f \in Fields |-> 0]

\* set_value(val, FIELD): val is shifted up to the field.
set_value(entry, val, f) == [entry EXCEPT ![f] = InField(val, f)]

\* set_masked(val, FIELD): the bits of val at the place of the field.
set_masked(entry, val, f) ==
    [entry EXCEPT ![f] = InField(val \div Pow2(FieldShift[f]), f)]

\* get_value(FIELD): the field, shifted down to bit 0.
get_value(entry, f) == entry[f]

\* get_masked(FIELD): the bits of the field at their place.
get_masked(entry, f) == entry[f] * Pow2(FieldShift[f])

\* L3Entry::is_valid
L3Entry_is_valid(entry) == get_value(entry, "VALID") = 1

\* A get_page_addr that reads the address bits at their place.
get_page_addr_masked(entry) ==
    IF L3Entry_is_valid(entry) THEN Some(get_masked(entry, "ADDR")) ELSE None

\* L3Entry::get_page_addr
get_page_addr(entry) ==
    IF L3Entry_is_valid(entry) THEN Some(get_value(entry, "ADDR")) ELSE None

\* ------------------------------------------------------ vm: PageTable
\* param.rs: the user image is loaded at the start of the highest GiB of
\* the address space, the user stack is its last page.
USER_IMG_BASE == <<65535, 65535, 49152, 0>>
USER_STACK_BASE == <<65535, 65535, 65535, 0>>

\* a - b on usize, for a >= b.
RECURSIVE borrow_sub(_, _, _, _)
borrow_sub(a, b, i, borrow) ==
    IF i = 0 THEN <<>>
    ELSE LET d == a[i] - b[i] - borrow
         IN borrow_sub(a, b, i - 1, IF d < 0 THEN 1 ELSE 0)
                \o <<IF d < 0 THEN d + Limb ELSE d>>
U64Sub(a, b) == borrow_sub(a, b, 4, 0)

\* The number of entries of an L3 table, and of L3 tables.
L3Entries == 8192
L3Tables == 2

\* locate with a mask of 12 ones for the index into the L3 table.
locate_12_ones(va) ==
    [panic |-> va[4] % PAGE_SIZE # 0,
     slot |-> <<(va[3] \div L3Entries) % L3Tables, va[3] % 4096>>]

\* PageTable::locate: the bit 29 and the bits 28..16 of the address; an
\* address that is not a multiple of PAGE_SIZE panics.
locate(va) ==
    [panic |-> va[4] % PAGE_SIZE # 0,
     slot |-> <<(va[3] \div L3Entries) % L3Tables, va[3] % L3Entries>>]

\* The entry of a slot: the one written last, or the one of L3Entry::new.
EntryAt(l3, slot) == IF slot \in DOMAIN l3 THEN l3[slot] ELSE ZeroEntry

\* PageTable::is_valid, for an address that locate accepts.
is_valid(l3, va) == L3Entry_is_valid(EntryAt(l3, locate(va).slot))

\* A set_entry that writes the first slot of the first table.
set_entry_first(l3, va, entry) ==
    [s \in DOMAIN l3 \cup {<<0, 0>>} |->
        IF s = <<0, 0>> THEN entry ELSE l3[s]]

\* PageTable::set_entry, for an address that locate accepts.
set_entry(l3, va, entry) ==
    [s \in DOMAIN l3 \cup {locate(va).slot} |->
        IF s = locate(va).slot THEN entry ELSE l3[s]]

\* Page::layout() and the layout of Box<PageTable>: the L2 table and two
\* L3 tables, each of one page.
PageLayout == Layout(PAGE_SIZE, PAGE_SIZE)
TableLayout == Layout((1 + L3Tables) * PAGE_SIZE, PAGE_SIZE)

\* set_value for each <<val, field>> of a list, in its order.
RECURSIVE set_values(_, _)
set_values(entry, list) ==
    IF list = <<>> THEN entry
    ELSE set_values(set_value(entry, Head(list)[1], Head(list)[2]),
                    Tail(list))

\* The entry UserPageTable::alloc writes for a page: valid, a page, normal
\* memory, USER_RW, inner shareable, accessed.
UserEntry(page_address) ==
    set_masked(
        set_values(ZeroEntry,
                   <<<<1, "VALID">>, <<1, "TYPE">>, <<0, "ATTR">>,
                     <<1, "AP">>, <<3, "SH">>, <<1, "AF">>>>),
        page_address, "ADDR")

\* ------------------------------------------------ vm: UserPageTable
\* The heap of the kernel: it starts behind the kernel image and has room
\* for a number of pages (allocator::memory_map).
PageHeapStart == 8 * PAGE_SIZE + 8
HeapPages == {6, 8}
PageHeap(pages) ==
    [bins |-> [k \in 1..NumBins |-> <<>>], free_start |-> PageHeapStart,
     free_end |-> PageHeapStart + pages * PAGE_SIZE]

\* The virtual addresses and the permissions of the calls.
VAs ==
    {USER_IMG_BASE, <<65535, 65535, 49153, 0>>, USER_STACK_BASE,
     <<65535, 65535, 49152, 8>>, <<65535, 65535, 49151, 0>>, U64Zero}
PagePerm == {"RW", "RO", "RWX"}

\* The calls on the allocator and the page table are counted up to here.
MaxVmCalls == 5

\* History: the scenario new, alloc(USER_IMG_BASE, RWX), drop, alloc of a
\* page that the calls so far make: the stage reached and the page.
S4Off == <<>>

\* The slots in the order of the iterator of the table: the first L3
\* table, then the second.
RECURSIVE SlotOrder(_)
SlotOrder(slots) ==
    IF slots = {} THEN <<>>
    ELSE LET first == CHOOSE s \in slots :
                 \A t \in slots :
                     s[1] * L3Entries + s[2] <= t[1] * L3Entries + t[2]
         IN <<first>> \o SlotOrder(slots \ {first})

\* The loop of Drop for UserPageTable: every valid entry gives the address
\* get_page_addr reads from it back to the allocator.
RECURSIVE drop_entries(_, _, _)
drop_entries(h, l3, slots) ==
    IF slots = <<>> THEN h
    ELSE LET entry == l3[Head(slots)]
         IN drop_entries(
                IF L3Entry_is_valid(entry)
                THEN dealloc(h, get_page_addr(entry)[1], PageLayout)
                ELSE h,
                l3, Tail(slots))

\* ALLOCATOR.initialize(): the heap the memory map gives.
VmBoot ==
    /\ vm.status = "off"
    /\ \E pages \in HeapPages :
          vm' = [vm EXCEPT !.status = "none", !.heap = PageHeap(pages)]
    /\ UNCHANGED notVm

\* UserPageTable::new: PageTable::new(USER_RW) takes the three tables from
\* the heap in a Box; Box::new does not return when the heap has no room.
UserPageTable_new ==
    /\ vm.status \in {"none", "dropped"}
    /\ vm.n < MaxVmCalls
    /\ \E r \in {alloc(vm.heap, TableLayout)} :
          vm' = IF r.ret = Null
                THEN [vm EXCEPT !.status = "panic", !.n = @ + 1,
                                !.s4 = S4Off,
                                !.last = [NoVmCall EXCEPT
                                              !.op = "new",
                                              !.at = "handle_alloc_error"]]
                ELSE [vm EXCEPT !.status = "alive", !.heap = r.heap,
                                !.base = r.ret, !.l3 = NoEntries,
                                !.pages = {}, !.n = @ + 1,
                                !.s4 = IF vm.n = 0 THEN <<"new">> ELSE S4Off,
                                !.last = [NoVmCall EXCEPT !.op = "new",
                                                          !.ret = r.ret]]
    /\ UNCHANGED notVm

\* History: the bytes of the heap that are in use: those below free_start
\* that are in no free block, as the blocks that hold them.
HeapUse(h) ==
    [free_start |-> h.free_start,
     free |-> UNION {{<<h.bins[k + 1][i], size_of(k)>> :
                         i \in 1..Len(h.bins[k + 1])} :
                     k \in 0..(NumBins - 1)}]

\* A UserPageTable::alloc that leaves the page it maps with the allocator.
user_alloc_unreserved(h, l3, va) ==
    LET r == alloc(h, PageLayout)
        dest == U64Sub(va, USER_IMG_BASE)
    IN IF U64Less(va, USER_IMG_BASE)
       THEN [heap |-> h, l3 |-> l3, ret |-> Null, at |-> "below_base"]
       ELSE IF r.ret = Null
       THEN [heap |-> h, l3 |-> l3, ret |-> Null, at |-> "null"]
       ELSE IF locate(dest).panic
       THEN [heap |-> h, l3 |-> l3, ret |-> r.ret, at |-> "locate"]
       ELSE [heap |-> h, l3 |-> set_entry(l3, dest, UserEntry(r.ret)),
             ret |-> r.ret, at |-> "none"]

\* UserPageTable::alloc(va, perm) on the heap h and the entries l3: the
\* heap and the entries after it, the page it returns, and the place of
\* its panic if it does not return.
user_alloc(h, l3, va) ==
    LET r == alloc(h, PageLayout)
        dest == U64Sub(va, USER_IMG_BASE)
    IN IF U64Less(va, USER_IMG_BASE)
       THEN [heap |-> h, l3 |-> l3, ret |-> Null, at |-> "below_base"]
       ELSE IF r.ret = Null
       THEN [heap |-> h, l3 |-> l3, ret |-> Null, at |-> "null"]
       ELSE IF locate(dest).panic
       THEN [heap |-> r.heap, l3 |-> l3, ret |-> r.ret, at |-> "locate"]
       ELSE [heap |-> r.heap, l3 |-> set_entry(l3, dest, UserEntry(r.ret)),
             ret |-> r.ret, at |-> "none"]

\* UserPageTable::alloc(va, perm) on the table of vm.
UserPageTable_alloc(va, perm) ==
    LET a == user_alloc(vm.heap, vm.l3, va)
    IN [vm EXCEPT
           !.status = IF a.at = "none" THEN @ ELSE "panic",
           !.heap = a.heap,
           !.l3 = a.l3,
           !.pages = IF a.at = "none" THEN @ \cup {a.ret} ELSE @,
           !.n = @ + 1,
           !.s4 = IF a.at = "none" /\ vm.s4 = <<"new">>
                      /\ va = USER_IMG_BASE /\ perm = "RWX"
                   THEN <<"new", a.ret>> ELSE S4Off,
           !.last = [NoVmCall EXCEPT !.op = "alloc", !.va = va,
                                     !.perm = perm, !.ret = a.ret,
                                     !.pre = vm.l3,
                                     !.hpre = HeapUse(vm.heap),
                                     !.at = a.at]]

VmAlloc ==
    /\ vm.status = "alive"
    /\ vm.n < MaxVmCalls
    /\ \E va \in VAs : \E perm \in PagePerm :
          vm' = UserPageTable_alloc(va, perm)
    /\ UNCHANGED notVm

\* The pages the valid entries of the table were written for.
Reachable(v) ==
    {page \in v.pages :
        \E slot \in DOMAIN v.l3 :
            /\ L3Entry_is_valid(v.l3[slot])
            /\ get_masked(v.l3[slot], "ADDR") = page}

\* Drop for UserPageTable, and the drop of its Box<PageTable> behind it.
VmDrop ==
    /\ vm.status = "alive"
    /\ vm' = [vm EXCEPT
                 !.status = "dropped",
                 !.heap = dealloc(drop_entries(vm.heap, vm.l3,
                                               SlotOrder(DOMAIN vm.l3)),
                                  vm.base, TableLayout),
                 !.s4 = IF Len(vm.s4) = 2 THEN Append(vm.s4, "drop")
                        ELSE S4Off,
                 !.last = [NoVmCall EXCEPT !.op = "drop", !.pre = vm.l3,
                                           !.reach = Reachable(vm)]]
    /\ UNCHANGED notVm

\* ALLOCATOR.alloc(Page::layout()) by another part of the kernel.
VmPage ==
    /\ vm.status \in {"none", "alive", "dropped"}
    /\ vm.n < MaxVmCalls
    /\ \E r \in {alloc(vm.heap, PageLayout)} :
          vm' = [vm EXCEPT
                    !.heap = r.heap, !.n = @ + 1,
                    !.s4 = IF Len(vm.s4) = 3 THEN Append(vm.s4, r.ret)
                           ELSE S4Off,
                    !.last = [NoVmCall EXCEPT !.op = "page",
                                              !.ret = r.ret]]
    /\ UNCHANGED notVm

NextVm ==
    \/ VmBoot
    \/ UserPageTable_new
    \/ VmAlloc
    \/ VmDrop
    \/ VmPage

SpecVm == InitHeap /\ [][NextVm]_vars

\* ------------------------------------------------------ vm: Process::load
\* The layouts of the parts of a Process: the kernel stack (stack.rs),
\* the TrapFrame of frame.rs in a Box, and the Box of the UserPageTable,
\* which is one pointer.
StackLayout == Layout(16 * PAGE_SIZE, 16)
TrapFrameLayout == Layout(6 * 8 + 32 * 16 + 32 * 8, 16)
BoxLayout == Layout(8, 8)

\* The heaps a load finds: with room for no stack, for a stack and a trap
\* frame, for the tables too, for one page behind them, for a process
\* and for two.
LoadHeapPages == {15, 17, 21, 23, 24, 48}

\* The files open_file finds: the size of the file and the bytes one call
\* of read gives at most, which is less than the size when the chain of
\* clusters ends before the file does. found is FALSE when open_file
\* returns an error.
File(found, size, chunk) == [found |-> found, size |-> size, chunk |-> chunk]
Files ==
    {File(FALSE, 0, 0), File(TRUE, 0, 0), File(TRUE, 100, 100),
     File(TRUE, PAGE_SIZE, PAGE_SIZE), File(TRUE, 100, 60),
     File(TRUE, PAGE_SIZE + 1, PAGE_SIZE + 1)}

\* The processes in the queue and the calls of load are counted up to
\* here.
MaxProcs == 2
MaxLoads == 3

\* The value of a set of one value: a result that is computed once and
\* used in several places.
Only(S) == CHOOSE x \in S : TRUE

NoProcess ==
    [context |-> Null, stack |-> Null, vmap |-> Null, base |-> Null,
     l3 |-> NoEntries, pages |-> {}]

\* Process::new on the heap h: the heap after it, the process, and how it
\* ended: Stack::new returns None without a block, Box::new does not
\* return without one.
new_process(h, s, c, p, b) ==
    IF s.ret = Null
    THEN [heap |-> h, result |-> "NoMemory", at |-> "none",
          proc |-> NoProcess]
    ELSE IF c.ret = Null \/ p.ret = Null \/ b.ret = Null
    THEN [heap |-> h, result |-> "none", at |-> "handle_alloc_error",
          proc |-> NoProcess]
    ELSE [heap |-> b.heap, result |-> "Ok", at |-> "none",
          proc |-> [context |-> c.ret, stack |-> s.ret, vmap |-> b.ret,
                    base |-> p.ret, l3 |-> NoEntries, pages |-> {}]]
Process_new(h) ==
    Only({Only({Only({Only({new_process(h, s, c, p, b) :
        b \in {alloc(p.heap, BoxLayout)}}) :
        p \in {alloc(c.heap, TableLayout)}}) :
        c \in {alloc(s.heap, TrapFrameLayout)}}) :
        s \in {alloc(h, StackLayout)}})

\* The drop of a Process: its fields in their order, and in vmap the Drop
\* of the UserPageTable, the Box of the tables and the Box around them.
Process_drop(h, proc) ==
    dealloc(
        dealloc(
            drop_entries(
                dealloc(dealloc(h, proc.context, TrapFrameLayout),
                        proc.stack, StackLayout),
                proc.l3, SlotOrder(DOMAIN proc.l3)),
            proc.base, TableLayout),
        proc.vmap, BoxLayout)

\* File::read into a page, bytes into the file: the bytes it returns.
file_read(file, bytes) ==
    IF file.size - bytes < file.chunk THEN file.size - bytes ELSE file.chunk

\* The loop of do_load: a page at USER_IMG_BASE and a read into it, until
\* the file has been read; the heap bounds the iterations.
RECURSIVE load_loop(_, _, _, _)
load_page(a, proc, file, bytes) ==
    IF a.at # "none"
    THEN [heap |-> a.heap, proc |-> proc, result |-> "none", at |-> a.at]
    ELSE load_loop(a.heap,
                   [proc EXCEPT !.l3 = a.l3, !.pages = @ \cup {a.ret}],
                   file, bytes + file_read(file, bytes))
load_loop(h, proc, file, bytes) ==
    IF bytes >= file.size
    THEN [heap |-> h, proc |-> proc, result |-> "Ok", at |-> "none"]
    ELSE Only({load_page(a, proc, file, bytes) :
                  a \in {user_alloc(h, proc.l3, USER_IMG_BASE)}})

\* Process::do_load, after Process::new and after the page of the stack.
do_load_stack(new, stack, process, file) ==
    IF stack.at # "none"
    THEN [heap |-> stack.heap, result |-> "none", at |-> stack.at,
          proc |-> new.proc]
    ELSE IF ~file.found
    THEN [heap |-> Process_drop(stack.heap, process), result |-> "Io",
          at |-> "none", proc |-> NoProcess]
    ELSE IF file.size > PAGE_SIZE
    THEN [heap |-> stack.heap, result |-> "none",
          at |-> "unimplemented", proc |-> process]
    ELSE load_loop(stack.heap, process, file, 0)
do_load_new(new, file) ==
    IF new.result # "Ok" THEN new
    ELSE Only({Only({do_load_stack(new, stack, process, file) :
             process \in {[new.proc EXCEPT !.l3 = stack.l3,
                                           !.pages = @ \cup {stack.ret}]}}) :
             stack \in {user_alloc(new.heap, new.proc.l3, USER_STACK_BASE)}})

\* Process::do_load
do_load(h, file) ==
    Only({do_load_new(new, file) : new \in {Process_new(h)}})

\* ALLOCATOR.initialize(): the heap the memory map gives.
LoadBoot ==
    /\ vm.status = "off"
    /\ \E pages \in LoadHeapPages :
          vm' = [vm EXCEPT !.status = "none", !.heap = PageHeap(pages)]
    /\ UNCHANGED notVm

\* Process::load(pn): do_load, and the trap frame of the new process.
ProcessLoad ==
    /\ vm.status = "none"
    /\ Len(vm.procs) < MaxProcs
    /\ vm.n < MaxLoads
    /\ \E file \in Files : \E r \in {do_load(vm.heap, file)} :
          vm' = [vm EXCEPT
                    !.status = IF r.at = "none" THEN @ ELSE "panic",
                    !.heap = r.heap,
                    !.procs = IF r.result = "Ok" THEN Append(@, r.proc)
                              ELSE @,
                    !.n = @ + 1,
                    !.last = [NoVmCall EXCEPT
                                  !.op = "load", !.at = r.at,
                                  !.result = r.result, !.file = file,
                                  !.hpre = HeapUse(vm.heap)]]
    /\ UNCHANGED notVm

\* The drop of a process of the queue.
ProcessDrop ==
    /\ vm.status = "none"
    /\ \E i \in 1..Len(vm.procs) :
          vm' = [vm EXCEPT
                    !.heap = Process_drop(@, vm.procs[i]),
                    !.procs = Remove(@, i),
                    !.last = [NoVmCall EXCEPT
                                  !.op = "drop_process",
                                  !.reach = vm.procs[i].pages]]
    /\ UNCHANGED notVm

NextLoad ==
    \/ LoadBoot
    \/ ProcessLoad
    \/ ProcessDrop

SpecLoad == InitHeap /\ [][NextLoad]_vars

\* ------------------------------------------------------ vm: KernPageTable
\* The state outside the kernel page table.
notKpt == <<schedVars, locks, heap, heapx, calc, vm, exc, sq, loc>>

\* pi::common: the registers of the peripherals lie in the last 16 MiB of
\* the first GiB.
IO_BASE == 16128 * PAGE_SIZE
IO_BASE_END == 16384 * PAGE_SIZE

\* The ends of the RAM that allocator::memory_map reports.
RamEnds == {16 * PAGE_SIZE, 40 * PAGE_SIZE}

\* The test of the page at curr_address in a table that maps the RAM only.
is_mapped_ram_only(curr_address, ending_address) ==
    curr_address <= ending_address - PAGE_SIZE

\* The test of the page at curr_address: in the RAM or in the peripherals.
is_mapped(curr_address, ending_address) ==
    curr_address <= ending_address - PAGE_SIZE \/ curr_address >= IO_BASE

\* The entry KernPageTable::new writes for the page at curr_address.
KernEntry(curr_address, ending_address) ==
    set_masked(
        set_values(ZeroEntry,
                   <<<<1, "VALID">>, <<1, "TYPE">>>>
                   \o (IF curr_address <= ending_address - PAGE_SIZE
                       THEN <<<<0, "ATTR">>, <<3, "SH">>>>
                       ELSE IF curr_address >= IO_BASE
                       THEN <<<<1, "ATTR">>, <<2, "SH">>>>
                       ELSE <<>>)
                   \o <<<<0, "AP">>, <<1, "AF">>>>),
        curr_address, "ADDR")

\* KernPageTable::new up to its loop: the tables of PageTable::new and the
\* end of the RAM.
KernPageTable_new ==
    /\ kpt.stage = "off"
    /\ \E ending_address \in RamEnds :
          kpt' = [stage |-> "loop", ending_address |-> ending_address,
                  curr_address |-> 0, l3 |-> NoEntries]
    /\ UNCHANGED notKpt

\* One iteration of the loop of KernPageTable::new.
KernPageTable_loop ==
    /\ kpt.stage = "loop"
    /\ kpt.curr_address <= IO_BASE_END - PAGE_SIZE
    /\ kpt' = [kpt EXCEPT
                  !.l3 = IF is_mapped(kpt.curr_address, kpt.ending_address)
                         THEN set_entry(@, U64FromNat(kpt.curr_address),
                                        KernEntry(kpt.curr_address,
                                                  kpt.ending_address))
                         ELSE @,
                  !.curr_address = @ + PAGE_SIZE]
    /\ UNCHANGED notKpt

\* The end of the loop: KernPageTable::new returns the table.
KernPageTable_return ==
    /\ kpt.stage = "loop"
    /\ ~(kpt.curr_address <= IO_BASE_END - PAGE_SIZE)
    /\ kpt' = [kpt EXCEPT !.stage = "done"]
    /\ UNCHANGED notKpt

NextKpt ==
    \/ KernPageTable_new
    \/ KernPageTable_loop
    \/ KernPageTable_return

SpecKpt == InitHeap /\ [][NextKpt]_vars

\* ----------------------------------------------------- vm: locate
\* The state outside the calls of locate.
notLoc == <<schedVars, locks, heap, heapx, calc, vm, kpt, exc, sq>>

\* The addresses of the calls: the bits 63..32 all clear or all set, the
\* bits 31..16 around the bits 29 and 28, and the bits 15..0 aligned or not.
LocHigh == {0, 65535}
LocMid == {0, 1, 8191, 8192, 16384, 49152, 49153, 53248, 57343, 57344,
           65535}
LocLow == {0, 8, 32768}
LocVAs == {<<h, h, m, l>> : h \in LocHigh, m \in LocMid, l \in LocLow}

\* The calls are counted up to here.
MaxLocCalls == 2

\* PageTable::locate(va)
LocLocate ==
    /\ Len(loc) < MaxLocCalls
    /\ \E va \in LocVAs : \E r \in {locate(va)} :
          loc' = Append(loc, [op |-> "locate", va |-> va, at |->
                                 IF r.panic THEN "locate" ELSE "none",
                              slots |-> {r.slot}])
    /\ UNCHANGED notLoc

\* UserPageTable::alloc(va, perm) on a new table, with pages in the heap:
\* where it panicked, and the slots of the entries it wrote.
LocAlloc ==
    /\ Len(loc) < MaxLocCalls
    /\ \E va \in LocVAs : \E a \in {user_alloc(PageHeap(8), NoEntries, va)} :
          loc' = Append(loc, [op |-> "alloc", va |-> va, at |-> a.at,
                              slots |-> DOMAIN a.l3])
    /\ UNCHANGED notLoc

NextLoc ==
    \/ LocLocate
    \/ LocAlloc

SpecLoc == InitHeap /\ [][NextLoc]_vars

\* ------------------------------------------------------- handle_exception
\* The state outside the exception entry.
notExc == <<schedVars, locks, heap, heapx, calc, vm, kpt, sq, loc>>

\* Kind of traps.rs.
Kinds == {"Synchronous", "Irq", "Fiq", "SError"}

\* The exception class of an ESR value, esr >> 26, for esr as two limbs.
ExceptionClass(esr) == esr[1] \div 1024

\* Syndrome::from(esr): the syndrome and, for Svc, Hvc, Smc and Brk, the
\* low 16 bits of esr.
Syndrome(tag, n) == [tag |-> tag, n |-> n]
Syndrome_from(esr) ==
    LET class == ExceptionClass(esr)
    IN IF class = 0 THEN Syndrome("Unknown", 0)
       ELSE IF class = 1 THEN Syndrome("WfiWfe", 0)
       ELSE IF class = 7 THEN Syndrome("SimdFp", 0)
       ELSE IF class = 14 THEN Syndrome("IllegalExecutionState", 0)
       ELSE IF class = 21 THEN Syndrome("Svc", esr[2])
       ELSE IF class = 18 THEN Syndrome("Hvc", esr[2])
       ELSE IF class = 19 THEN Syndrome("Smc", esr[2])
       ELSE IF class = 24 THEN Syndrome("MsrMrsSystem", 0)
       ELSE IF class \in {32, 33} THEN Syndrome("InstructionAbort", 0)
       ELSE IF class = 34 THEN Syndrome("PCAlignmentFault", 0)
       ELSE IF class \in {36, 37} THEN Syndrome("DataAbort", 0)
       ELSE IF class = 38 THEN Syndrome("SpAlignmentFault", 0)
       ELSE IF class \in {40, 44} THEN Syndrome("TrappedFpu", 0)
       ELSE IF class = 47 THEN Syndrome("SError", 0)
       ELSE IF class \in {48, 49} THEN Syndrome("Breakpoint", 0)
       ELSE IF class \in {50, 51} THEN Syndrome("Step", 0)
       ELSE IF class \in {52, 53} THEN Syndrome("Watchpoint", 0)
       ELSE IF class = 60 THEN Syndrome("Brk", esr[2])
       ELSE Syndrome("Other", 0)

\* The ESR values of the entries: an exception class with the bit IL set,
\* and the low 16 bits.
Classes == {1, 21, 36, 60}
Imm16 == {0, 1, 2, 3, 4, 5, 6}
Esrs == {<<class * 1024 + 512, imm>> : class \in Classes, imm \in Imm16}

\* The addresses of the instruction that trapped: the first instruction
\* of the user image and the last word of the address space, which lies in
\* the page of the user stack.
Elrs == {USER_IMG_BASE, <<65535, 65535, 65535, 65532>>}

\* The trap frames of the process that enters the kernel, and the frame of
\* another process, which a switch restores.
ExcFrames ==
    {[ExcFrameZeroed EXCEPT !.tpidr = U64FromNat(1), !.elr = elr,
                            !.sp = USER_STACK_BASE, !.x0 = U64FromNat(v)] :
        elr \in Elrs, v \in UserVals}
OtherFrame ==
    [ExcFrameZeroed EXCEPT !.tpidr = U64FromNat(2),
                           !.elr = <<65535, 65535, 49152, 64>>,
                           !.sp = <<65535, 65535, 65535, 65520>>]

\* The entries of handle_exception are counted up to here.
MaxEntries == 2

\* What an entry of handle_exception does: the trap frame after it, the
\* function it called, and how it ended: "eret" back to the process of
\* the frame, or "panic".
Handled(frame, call) == [tf |-> frame, call |-> call, out |-> "eret"]
Fatal(frame, call) == [tf |-> frame, call |-> call, out |-> "panic"]

\* a + b modulo 2^64.
wrapping_add(a, b) ==
    LET s4 == a[4] + b[4]
        s3 == a[3] + b[3] + s4 \div Limb
        s2 == a[2] + b[2] + s3 \div Limb
        s1 == a[1] + b[1] + s2 \div Limb
    IN <<s1 % Limb, s2 % Limb, s3 % Limb, s4 % Limb>>

\* tf.elr += 4: the build with overflow checks panics where the sum does
\* not fit, the build without them wraps.
elr_next(frame, checks) ==
    LET sum == checked_add(frame.elr, U64FromNat(4))
    IN IF sum # None THEN Handled([frame EXCEPT !.elr = sum[1]], "shell")
       ELSE IF checks THEN Fatal(frame, "shell")
       ELSE Handled([frame EXCEPT
                        !.elr = wrapping_add(frame.elr, U64FromNat(4))],
                    "shell")

\* handle_syscall(num, tf); next is the frame of the process that a switch
\* picks.
handle_syscall(num, frame, next, t) ==
    IF num = 1 THEN Handled(next, "sys_sleep")
    ELSE IF num = 2 THEN Handled(sys_time(frame, t), "sys_time")
    ELSE IF num = 3 THEN Handled(next, "sys_exit")
    ELSE IF num = 4 THEN Handled(sys_write(frame), "sys_write")
    ELSE IF num = 5 THEN Handled(sys_getpid(frame), "sys_getpid")
    ELSE Fatal(frame, "unimplemented")

\* handle_exception(info, esr, tf); pending says that the interrupt of
\* timer 1 is pending.
handle_exception(kind, esr, frame, pending, next, t, checks) ==
    IF kind = "Synchronous"
    THEN LET syndrome == Syndrome_from(esr)
         IN IF syndrome.tag = "Brk" THEN elr_next(frame, checks)
            ELSE IF syndrome.tag = "Svc"
            THEN handle_syscall(syndrome.n, frame, next, t)
            ELSE IF syndrome.tag = "WfiWfe" THEN Handled(frame, "none")
            ELSE Fatal(frame, "unimplemented")
    ELSE IF kind = "Irq"
    THEN IF pending THEN Handled(next, "timer_handler")
         ELSE Handled(frame, "none")
    ELSE Fatal(frame, "unimplemented")

\* The kernel is built with or without overflow checks, and a process
\* runs.
ExcStart ==
    /\ exc.stage = "off"
    /\ \E checks \in BOOLEAN : \E frame \in ExcFrames :
          exc' = [NoExc EXCEPT !.stage = "user", !.checks = checks,
                               !.tf = frame]
    /\ UNCHANGED notExc

\* An exception is taken while a process runs.
HandleException ==
    /\ exc.stage = "user"
    /\ exc.n < MaxEntries
    /\ \E kind \in Kinds : \E esr \in Esrs : \E pending \in BOOLEAN :
       \E next \in {exc.tf, OtherFrame} :
       \E r \in {handle_exception(kind, esr, exc.tf, pending, next, now,
                                  exc.checks)} :
          exc' = [exc EXCEPT
                     !.stage = IF r.out = "panic" THEN "fatal" ELSE "user",
                     !.n = @ + 1, !.kind = kind, !.esr = esr,
                     !.pre = exc.tf, !.tf = r.tf, !.call = r.call,
                     !.out = r.out]
    /\ UNCHANGED notExc

\* The process executes instructions: ELR is where it traps next.
ExcRun ==
    /\ exc.stage = "user"
    /\ \E elr \in Elrs :
          /\ exc.tf.elr # elr
          /\ exc' = [NoExc EXCEPT !.stage = "user", !.checks = exc.checks,
                                  !.n = exc.n,
                                  !.tf = [exc.tf EXCEPT !.elr = elr]]
    /\ UNCHANGED notExc

NextExc ==
    \/ ExcStart
    \/ HandleException
    \/ ExcRun

SpecExc == InitHeap /\ [][NextExc]_vars

\* --------------------------------------- the scheduler and a written tpidr
\* The state outside this scheduler.
notSq == <<schedVars, locks, heap, heapx, calc, vm, kpt, exc, loc>>

\* The processes in the queue, the calls of the scheduler and the steps of
\* the clock are counted up to here; the clock advances by SqStep
\* microseconds.
MaxSqProcs == 3
MaxSqCalls == 3
MaxSqSteps == 2
SqStep == 6000

\* What the program that runs can leave in tpidr_el0, which the kernel
\* entry saves into tf.tpidr: the PIDs of the queue and a value that is no
\* PID; and what it can leave in x1.
SqTpidrs == {0, 1, 2, 7}
SqX1 == {0, 5}

\* The frame of a kernel entry taken while the registers are tf.
SqFrames(frame) ==
    {[frame EXCEPT !.tpidr = U64FromNat(id), !.x0 = U64FromNat(v),
                   !.x1 = U64FromNat(w)] :
        id \in SqTpidrs, v \in UserVals, w \in SqX1}

\* GlobalScheduler::add, before start.
SqAdd ==
    /\ sq.pc \in {"off", "boot"}
    /\ Len(sq.processes) < MaxSqProcs
    /\ \E r \in {add(sq.processes, sq.last_id, NewProcess)} :
          sq' = [sq EXCEPT !.pc = "boot", !.processes = r.processes,
                           !.last_id = r.last_id]
    /\ UNCHANGED notSq

\* What one call left behind: the queue before it, after schedule_out and
\* after switch_to, the frame it was entered with and the frame it left,
\* the PID of the process that ran when it was entered, and what the calls
\* of is_ready in the walk of switch_to returned and left in the process.
SqCall(op, state, frame, out, r) ==
    [op |-> op, state |-> state, frame |-> frame, cur |-> sq.cur,
     pre |-> sq.processes, mid |-> out.processes, out |-> out.ret,
     post |-> r.processes, tf |-> r.tf, ret |-> r.ret, t |-> sq.now,
     polls |-> [j \in 1..Len(polled_by(out.processes, sq.now)) |->
                   is_ready(out.processes[j], sq.now)]]

\* The frames that processes were scheduled out with, after a call entered
\* with frame by the process cur resumed the process ret.
SqSaved(saved, cur, frame, asleep, ret) ==
    {s \in saved \cup {<<c, frame, asleep>> : c \in Range(cur)} :
        Some(s[1]) # ret}

\* The iteration of the loop of GlobalScheduler::switch_to on the queue
\* out.processes.
SqAttempt(op, state, frame, asleep, out) ==
    \E r \in {switch_to(out.processes, frame, sq.now)} :
        sq' = [sq EXCEPT
                  !.pc = IF r.ret = None THEN "sched" ELSE "user",
                  !.processes = r.processes,
                  !.tf = r.tf,
                  !.n = @ + 1,
                  !.cur = r.ret,
                  !.saved = SqSaved(@, sq.cur, frame, asleep, r.ret),
                  !.last = SqCall(op, state, frame, out, r)]

\* GlobalScheduler::start
SqStart ==
    /\ sq.pc = "boot"
    /\ SqAttempt("start", Running, TrapFrameZeroed, FALSE,
                 [processes |-> sq.processes, ret |-> FALSE])
    /\ UNCHANGED notSq

\* A further iteration of the loop of GlobalScheduler::switch_to.
SqRetry ==
    /\ sq.pc = "sched"
    /\ sq.n < MaxSqCalls + MaxSqSteps
    /\ SqAttempt("retry", Running, sq.tf, FALSE,
                 [processes |-> sq.processes, ret |-> FALSE])
    /\ UNCHANGED notSq

\* GlobalScheduler::switch(new_state, tf) on the frame of a kernel entry.
SqSwitch(op, state, frame, asleep) ==
    /\ sq.pc = "user"
    /\ sq.n < MaxSqCalls
    /\ \E out \in {schedule_out(sq.processes, state, frame)} :
          SqAttempt(op, state, frame, asleep, out)
    /\ UNCHANGED notSq

\* timer_handler
SqTick == \E frame \in SqFrames(sq.tf) : SqSwitch("tick", Ready, frame, FALSE)

\* sys_sleep(ms, tf)
SqSleep ==
    \E frame \in SqFrames(sq.tf) :
        SqSwitch("sleep",
                 Waiting(current_millis(sq.now), AsU32(frame.x0)), frame,
                 TRUE)

\* sys_exit
SqExit == \E frame \in SqFrames(sq.tf) : SqSwitch("exit", Dead, frame, FALSE)

\* GlobalScheduler::kill(tf)
SqKill ==
    /\ sq.pc = "user"
    /\ sq.n < MaxSqCalls
    /\ \E frame \in SqFrames(sq.tf) : \E r \in {kill(sq.processes, frame)} :
          sq' = [sq EXCEPT
                    !.pc = "sched",
                    !.processes = r.processes,
                    !.tf = frame,
                    !.n = @ + 1,
                    !.cur = None,
                    !.saved = {s \in @ : Some(s[1]) # r.ret},
                    !.last = [NoSqCall EXCEPT
                                 !.op = "kill", !.state = Dead,
                                 !.frame = frame, !.cur = sq.cur,
                                 !.pre = sq.processes,
                                 !.mid = schedule_out(sq.processes, Dead,
                                                      frame).processes,
                                 !.out = r.ret # None,
                                 !.post = r.processes, !.tf = frame,
                                 !.ret = r.ret, !.t = sq.now]]
    /\ UNCHANGED notSq

\* The system timer counts on.
SqAdvance ==
    /\ sq.pc \in {"user", "sched"}
    /\ (sq.now - BootTime) \div SqStep < MaxSqSteps
    /\ sq' = [sq EXCEPT !.now = @ + SqStep]
    /\ UNCHANGED notSq

NextSq ==
    \/ SqAdd
    \/ SqStart
    \/ SqRetry
    \/ SqTick
    \/ SqSleep
    \/ SqExit
    \/ SqKill
    \/ SqAdvance

SpecSq == InitHeap /\ [][NextSq]_vars


\* ------------------------------------------------------------ spinlocks
\* The events of a kernel path: taking and dropping a spinlock, and the wfe
\* of the loop of GlobalScheduler::switch_to.
Lock(l) == <<"lock", l>>
Unlock(l) == <<"unlock", l>>
Wfe == <<"wfe", "cpu">>

\* A call into the global allocator (alloc or dealloc) under its lock.
Alloc == <<Lock("allocator"), Unlock("allocator")>>

\* GlobalScheduler::critical around the lock events of the closure.
critical(inner) == <<Lock("scheduler")>> \o inner \o <<Unlock("scheduler")>>

\* Scheduler::schedule_out: Box::new(*tf), then the old context is dropped.
schedule_out_events == Alloc \o Alloc

\* One attempt of Scheduler::switch_to in the loop: a Waiting process that
\* has become ready drops its boxed predicate.
Attempts == {critical(<<>>), critical(Alloc)}

\* GlobalScheduler::switch
SwitchPaths == {critical(schedule_out_events) \o a \o <<Wfe>> : a \in Attempts}

\* An Irq::invoke that takes the lock of the table only when the handler
\* is in the scheduler already.
invoke_late(handler) ==
    <<Head(handler), Lock("irq")>> \o Tail(handler) \o <<Unlock("irq")>>

\* Irq::invoke: the handler runs under the lock of the table.
invoke(handler) == <<Lock("irq")>> \o handler \o <<Unlock("irq")>>

\* The kernel paths and their lock events.
KernelPaths ==
    \* handle_exception, Kind::Irq: IRQ.invoke(Timer1, tf) -> timer_handler
    {invoke(sw) : sw \in SwitchPaths}
    \* sys_sleep: Box::new(closure), then switch
    \cup {Alloc \o sw : sw \in SwitchPaths}
    \* sys_exit
    \cup SwitchPaths
    \* GlobalScheduler::add: push_back may grow the queue
    \cup {critical(<<>>), critical(Alloc)}
    \* GlobalScheduler::kill: schedule_out, then the Dead process is dropped
    \cup {critical(schedule_out_events \o Alloc \o Alloc)}
    \* Irq::register: the handler is boxed before the table is locked
    \cup {Alloc \o Alloc \o <<Lock("irq"), Unlock("irq")>>}
    \* GlobalScheduler::start
    \cup {a \o <<Wfe>> : a \in Attempts}

\* The kernel is entered on one of its paths.
KernelEntry ==
    /\ locks.todo = <<>>
    /\ locks.held = <<>>
    /\ \E path \in KernelPaths :
          locks' = [locks EXCEPT !.todo = path, !.spins = 0]
    /\ UNCHANGED <<schedVars, heap, heapx, calc, vm, kpt, exc, sq, loc>>

\* Mutex::lock
Acquire ==
    /\ locks.todo # <<>>
    /\ Head(locks.todo)[1] = "lock"
    /\ LET l == Head(locks.todo)[2]
       IN /\ l \notin Range(locks.held)
          /\ locks' = [locks EXCEPT
                          !.held = Append(@, l),
                          !.todo = Tail(@),
                          !.order = @ \cup {<<h, l>> : h \in Range(locks.held)}]
    /\ UNCHANGED <<schedVars, heap, heapx, calc, vm, kpt, exc, sq, loc>>

\* The guard of a Mutex is dropped.
Release ==
    /\ locks.todo # <<>>
    /\ Head(locks.todo)[1] = "unlock"
    /\ LET l == Head(locks.todo)[2]
       IN locks' = [locks EXCEPT
                       !.held = SelectSeq(@, LAMBDA h : h # l),
                       !.todo = Tail(@)]
    /\ UNCHANGED <<schedVars, heap, heapx, calc, vm, kpt, exc, sq, loc>>

\* Scheduler::switch_to returned None: wfe, then another attempt.
WfeLoop ==
    /\ locks.todo # <<>>
    /\ Head(locks.todo) = Wfe
    /\ locks.spins < MaxSpins
    /\ \E a \in Attempts :
          locks' = [locks EXCEPT !.todo = a \o @, !.spins = @ + 1]
    /\ UNCHANGED <<schedVars, heap, heapx, calc, vm, kpt, exc, sq, loc>>

\* Scheduler::switch_to returned Some(id): the loop is left.
WfeReturn ==
    /\ locks.todo # <<>>
    /\ Head(locks.todo) = Wfe
    /\ locks' = [locks EXCEPT !.todo = Tail(@)]
    /\ UNCHANGED <<schedVars, heap, heapx, calc, vm, kpt, exc, sq, loc>>

NextLocks ==
    \/ KernelEntry
    \/ Acquire
    \/ Release
    \/ WfeLoop
    \/ WfeReturn

SpecLocks == Init /\ [][NextLocks]_vars

\* ----------------------------------------------------------------- claims
Tags(q) == [i \in 1..Len(q) |-> q[i].state.tag]

PidSet(q) == Range(Pids(q))

\* The process of the queue q with PID id (PIDs are distinct in q).
ProcOf(q, id) == q[CHOOSE i \in 1..Len(q) : q[i].context.tpidr = id]

\* A step that made an attempt of switch_to: every operation but the clock
\* records itself in last, and only the clock changes now.
AttemptOps == {"start", "retry", "tick", "sleep", "exit"}
AttemptStep == last'.op \in AttemptOps /\ now' = now

C2_RoundRobin ==
    visit.n > 0 =>
        /\ Len(visit.seen) <= visit.n
        /\ Cardinality(Range(visit.seen)) = Len(visit.seen)
        /\ Range(visit.seen) \subseteq PidSet(processes)
        /\ Len(visit.seen) = visit.n => Range(visit.seen) = PidSet(processes)

\* Two ticks in a row have gone round a queue of two processes.
C2_Witness == visit.n >= 2 /\ Len(visit.seen) = visit.n

MovedToTail(ids, id) ==
    IF id \in Range(ids) THEN SelectSeq(ids, LAMBDA x : x # id) \o <<id>> ELSE ids

MidPids ==
    IF last'.op \in {"tick", "sleep", "exit"}
    THEN MovedToTail(Pids(processes), last'.caller)
    ELSE Pids(processes)

\* The processes that wait when the attempt is made.
WaitingAtAttempt ==
    {processes[i].context.tpidr :
         i \in {j \in 1..Len(processes) : Tags(processes)[j] = "Waiting"}}
        \cup (IF last'.op = "sleep" THEN {last'.caller} ELSE {})

\* C4 as stated: every attempt of switch_to polls every Waiting process of
\* the queue.
C4_AllWaitingPolled ==
    [][AttemptStep => WaitingAtAttempt \subseteq Range(last'.polled)]_vars

\* C4, amended: an attempt of switch_to polls the processes in queue order
\* from the head up to and including the first one that is ready, and no
\* process behind it; the processes polled before that one are not ready
\* (Waiting with a false predicate, or Dead). Only an attempt that finds no
\* process ready polls the whole queue.
C4_PolledToFirstReady ==
    [][AttemptStep =>
          LET polled == last'.polled
              n == Len(polled)
          IN /\ n <= Len(MidPids)
             /\ polled = SubSeq(MidPids, 1, n)
             /\ last'.ret = None => polled = MidPids
             /\ last'.ret # None =>
                   /\ n > 0
                   /\ polled[n] = last'.ret[1]
                   /\ \A k \in 1..(n - 1) :
                         ProcOf(processes', polled[k]).state.tag
                             \in {"Waiting", "Dead"}]_vars

\* An attempt has picked a process and left a Waiting one behind it unpolled.
C4_Witness ==
    /\ last.op \in AttemptOps
    /\ last.ret # None
    /\ \E i \in 1..Len(processes) :
          /\ Tags(processes)[i] = "Waiting"
          /\ processes[i].context.tpidr \notin Range(last.polled)

\* A step of add.
AddStep == last'.op = "add" /\ now' = now

\* The behaviour began with a new scheduler (last_id = None).
FreshRun == last_id = None \/ last_id[1][1] = 0

\* C5: the k-th successful add stamps tpidr = k and pushes to the back; the
\* new PID is larger than every PID issued before, so the PIDs of the queue
\* are pairwise distinct; add fails, changing nothing, exactly when the last
\* PID issued is u64::MAX.
C5_AddStampsNextPid ==
    /\ [](Cardinality(PidSet(processes)) = Len(processes))
    /\ [][AddStep =>
             IF last_id = Some(U64Max)
             THEN /\ last'.ret = None
                  /\ processes' = processes
                  /\ last_id' = last_id
             ELSE /\ last'.ret # None
                  /\ last_id' = last'.ret
                  /\ processes' =
                         Append(processes,
                                [NewProcess EXCEPT !.context.tpidr = last'.ret[1]])
                  /\ \A id \in PidSet(processes) : U64Less(id, last'.ret[1])
                  /\ last_id # None => U64Less(last_id[1], last'.ret[1])
                  /\ FreshRun => last'.ret[1] = U64FromNat(nadded)]_vars

\* add has failed after the PID u64::MAX was issued.
C5_Witness ==
    /\ last.op = "add"
    /\ last.ret = None
    /\ last_id = Some(U64Max)
    /\ Len(processes) > 0

\* C6 as stated: a process that called sleep(ms) is not made Running again
\* before ms milliseconds have gone by since the call, and the frame it is
\* resumed with holds in x0 the elapsed milliseconds that the successful
\* poll measured, which are at least ms.
C6_SleepsAtLeastMs ==
    [][\A pr \in slept :
          \A i \in 1..Len(processes) :
             (/\ processes[i].context.tpidr = pr[1]
              /\ processes[i].state.tag = "Waiting"
              /\ last'.ret = Some(pr[1])
              /\ now' = now)
             => LET ms == LowNat(processes[i].state.ms)
                    measured == current_millis(now) - processes[i].state.start
                IN /\ now - pr[2] >= ms * MicrosPerMilli
                   /\ tf'.x0 = U64FromNat(measured)
                   /\ measured >= ms]_vars

C9_ExitRemovesCaller ==
    pc = "user" => \A i \in 1..Len(processes) : Tags(processes)[i] # "Dead"

\* A step of GlobalScheduler::kill.
KillStep == pc = "user" /\ pc' = "sched" /\ last'.op = "kill"

\* C10 as stated: kill(tf) returns the PID tf.tpidr and removes exactly the
\* process with that PID; the other processes keep their state, context
\* and order.
C10_KillRemovesCaller ==
    [][KillStep =>
          LET id == last'.caller
          IN /\ last'.ret = Some(id)
             /\ processes' =
                    SelectSeq(processes, LAMBDA p : p.context.tpidr # id)]_vars

\* C7 as stated: with a tick every TICK and the other processes always
\* Ready, the process that called sleep(ms) is resumed with x0 < ms + 2*TICK.
C7_WithinTwoQuanta ==
    SleeperResumed => LowNat(tf.x0) < SleepMs + 2 * TickMs

\* C7, amended: the sleeper goes to the tail and is polled only when the
\* n other processes have each had a quantum, and at every tick after
\* that: it is resumed with ms <= x0 < max(ms, n*TICK) + TICK, which is
\* below ms + 2*TICK when n*TICK < ms + 2*TICK.
C7_WakeupBound ==
    SleeperResumed =>
        LET n == Len(processes) - 1
            x0 == LowNat(tf.x0)
        IN /\ tf.tpidr = U64Zero
           /\ x0 >= SleepMs
           /\ x0 < Max(SleepMs, n * TickMs) + TickMs
           /\ n * TickMs < SleepMs + 2 * TickMs => x0 < SleepMs + 2 * TickMs

\* The sleeper has been resumed after every one of more than ms / TICK
\* other processes had its quantum.
C7_Witness ==
    /\ SleeperResumed
    /\ (Len(processes) - 1) * TickMs > SleepMs
    /\ LowNat(tf.x0) = (Len(processes) - 1) * TickMs

\* The latest reading of the system timer within the horizon.
MaxNow == BootTime + MaxSteps * ClockStep

\* The queue holds a Ready process, or a Waiting process whose predicate
\* returns true as time advances.
SomeBecomesReady ==
    \E i \in 1..Len(processes) :
       \/ Tags(processes)[i] = "Ready"
       \/ Tags(processes)[i] = "Waiting" /\ sleep_pred(processes[i], MaxNow).ready

\* C11: GlobalScheduler::switch does not return while no process is ready
\* (it stays in the loop of switch_to); when it returns, the process whose
\* PID it returns was ready at that attempt, is Running at the head of the
\* queue, and tf holds its context; and it returns eventually when the
\* queue holds a Ready process or a Waiting process whose predicate becomes
\* true as time advances.
C11_SwitchReturns ==
    /\ [][AttemptStep =>
             /\ pc' = "user" <=> last'.ret # None
             /\ pc' = "sched" =>
                   \A i \in 1..Len(processes') :
                      ~is_ready(processes'[i], now).ready
             /\ pc' = "user" =>
                   /\ IF last'.ret[1] = last'.caller
                         /\ last'.op \in {"tick", "sleep", "exit"}
                      THEN last'.op \in {"tick", "sleep"}
                      ELSE is_ready(ProcOf(processes, last'.ret[1]), now).ready
                   /\ processes'[1].state = Running
                   /\ processes'[1].context = tf'
                   /\ tf'.tpidr = last'.ret[1]]_vars
    /\ (pc = "sched" /\ SomeBecomesReady) ~> (pc = "user")

\* The loop has waited for a sleeper and then returned with it.
C11_Witness ==
    /\ last.op = "retry"
    /\ last.ret # None
    /\ pc = "user"
    /\ now > BootTime
    /\ LowNat(tf.x0) > 0

\* The lock order of the claim and the one the kernel follows.
RankStated(l) == IF l = "scheduler" THEN 1 ELSE IF l = "irq" THEN 2 ELSE 3

RankFollowed(l) == IF l = "irq" THEN 1 ELSE IF l = "scheduler" THEN 2 ELSE 3

\* C12 as stated: a lock is only taken under locks that come before it in
\* the order scheduler, IRQ table, allocator.
C12_OrderSchedulerIrqAllocator ==
    \A pr \in locks.order : RankStated(pr[1]) < RankStated(pr[2])

\* C12, amended: on every kernel path the spinlocks are taken in the order
\* IRQ table, then scheduler, then allocator: the timer handler runs under
\* the lock of the IRQ table and takes the scheduler lock there; the
\* IRQ-table lock is never taken under the scheduler lock or the allocator
\* lock, and the scheduler lock never under the allocator lock.
C12_OrderIrqSchedulerAllocator ==
    /\ \A pr \in locks.order : RankFollowed(pr[1]) < RankFollowed(pr[2])
    /\ \A i, j \in 1..Len(locks.held) :
          i < j => RankFollowed(locks.held[i]) < RankFollowed(locks.held[j])

\* The timer handler allocates in schedule_out: all three locks are held.
C12_Witness == locks.held = <<"irq", "scheduler", "allocator">>

\* A step of a system call that does not block.
ReturnStep == last'.op \in {"time", "write", "getpid"} /\ now' = now

\* C13: time, write and getpid leave the queue as it is and return to the
\* process that called: getpid with the caller's PID in x0, time with the
\* seconds and the milliseconds of the timer in x0 and x1 and nothing else
\* written, write with nothing written; the process that runs changes only
\* at a timer tick, at sleep and at exit.
C13_OnlyBlockingCallsSwitch ==
    /\ [][ReturnStep =>
             /\ processes' = processes
             /\ pc' = "user"
             /\ tf'.tpidr = tf.tpidr
             /\ tf'.tpidr = processes[1].context.tpidr
             /\ processes[1].state = Running
             /\ last'.op = "getpid" => tf'.x0 = tf.tpidr /\ tf'.x1 = tf.x1
             /\ last'.op = "time" =>
                   /\ LowNat(tf'.x0) * MicrosPerSec
                          + LowNat(tf'.x1) * MicrosPerMilli <= now
                   /\ now < LowNat(tf'.x0) * MicrosPerSec
                          + (LowNat(tf'.x1) + 1) * MicrosPerMilli
             /\ last'.op = "write" => tf' \in EntryFrames]_vars
    /\ [][(pc = "user" /\ (pc' # "user" \/ tf'.tpidr # tf.tpidr))
             => last'.op \in {"tick", "sleep", "exit"} /\ now' = now]_vars

\* getpid has returned a PID other than 0 to a process that was preempted
\* before, with other processes in the queue.
C13_Witness ==
    /\ last.op = "getpid"
    /\ tf.tpidr # U64Zero
    /\ tf.x0 = tf.tpidr
    /\ Len(processes) > 1
    /\ now > BootTime

\* The free blocks: pairs of a class and an address.
FreeBlocks ==
    UNION {{<<k, heap.bins[k + 1][i]>> : i \in 1..Len(heap.bins[k + 1])} :
              k \in 0..(NumBins - 1)}

\* The bytes of the block at address a with n bytes.
Bytes(a, n) == a..(a + n - 1)

\* C14 as stated: every block of free list k is at a multiple of 2^(k+3)
\* and covers its 2^(k+3) bytes alone: no two free blocks share a byte, so
\* none is in two lists or twice in one.
C14_FreeBlocksAligned ==
    /\ \A fb \in FreeBlocks : fb[2] % size_of(fb[1]) = 0
    /\ \A k \in 0..(NumBins - 1) :
          Cardinality(Range(heap.bins[k + 1])) = Len(heap.bins[k + 1])
    /\ \A fa, fb \in FreeBlocks :
          fa # fb => Bytes(fa[2], size_of(fa[1]))
                        \cap Bytes(fb[2], size_of(fb[1])) = {}

\* C15: every address alloc has returned is in the heap, aligned to the
\* layout, with the bytes of the layout below the end of the heap.
C15_AllocInHeap ==
    \A b \in heapx.live :
       /\ HeapStart <= b.ptr
       /\ b.ptr % b.layout.align = 0
       /\ b.ptr + b.layout.size <= heap.free_end
       /\ b.ptr # Null

\* Blocks are allocated from the free memory and from a split free block.
C15_Witness ==
    /\ \E b \in heapx.live : b.layout = Layout(8, 16) /\ b.ptr > HeapStart
    /\ Cardinality(heapx.live) >= 3
    /\ FreeBlocks # {}
    /\ heap.free_start = heap.free_end

C17_LoopDoesNotGrow == heapx.run.adv <= 2

\* A loop has moved free_start and then run on without moving it.
C17_Witness ==
    /\ heapx.run.again
    /\ heapx.run.adv >= 1
    /\ heapx.run.settled
    /\ heapx.run.stage = 1

\* The six blocks have been freed in the reverse order.
ScenDone == heapx.scen.stage = "free" /\ heapx.scen.ptrs = <<>>

\* C18 as stated: after six 8-byte blocks from a new heap are freed in the
\* reverse order, one block of class 3 at the heap start is free and
\* nothing else.
C18_OneBlockOf64 ==
    ScenDone => FreeBlocks = {<<3, HeapStart>>}

\* C18, amended: the six blocks are 48 bytes; after they are freed in the
\* reverse order the free lists hold a block of 16 bytes at the heap start
\* and a block of 32 bytes 16 bytes behind it, and nothing else; free_start
\* stays behind the six blocks.
C18_BlocksOf16And32 ==
    ScenDone =>
        /\ FreeBlocks = {<<1, HeapStart>>, <<2, HeapStart + 16>>}
        /\ heap.free_start = HeapStart + 48
        /\ heapx.live = {}

C18_Witness == ScenDone /\ FreeBlocks # {}

\* The block that the step has allocated.
Allocated == CHOOSE b \in heapx'.live : b \notin heapx.live

\* The step is an alloc that is served from a free block of a larger class.
SplitStep ==
    /\ heapx'.live # heapx.live
    /\ heapx.live \subseteq heapx'.live
    /\ heapx'.from < NumBins
    /\ heapx'.from > bin_of(Allocated.layout.size)

\* The remainder of a block of class j at address a once the first
\* 2^(k+3) bytes are taken: one block of each class c = k..j-1, at
\* a + 2^(c+3).
Pieces(a, k, j) == [n \in 1..(j - k) |-> <<k + n - 1, a + Pow2(k + n - 1 + 3)>>]

\* Each piece inserted in turn.
RECURSIVE InsertPieces(_, _, _)
InsertPieces(bins, pieces, n) ==
    IF n > Len(pieces) THEN bins
    ELSE InsertPieces(insert_block(bins, pieces[n][2], Pow2(pieces[n][1] + 3)),
                      pieces, n + 1)

\* The bytes of the first n pieces.
RECURSIVE PiecesBytes(_, _)
PiecesBytes(pieces, n) ==
    IF n = 0 THEN 0 ELSE Pow2(pieces[n][1] + 3) + PiecesBytes(pieces, n - 1)

\* C19: an alloc of class k served from the free block of class j > k at
\* address A returns A, takes that block from its list and inserts the
\* rest as one block of each class k..j-1 at increasing addresses, which
\* are all of the rest; with only a block of 64 bytes free, alloc of 8
\* bytes aligned to 8 leaves one free block each of 8, 16 and 32 bytes.
C19_SplitReturnsLowest ==
    [][SplitStep =>
        LET k == bin_of(Allocated.layout.size)
            j == heapx'.from
            list == heap.bins[j + 1]
            i == first_aligned(list, Allocated.layout.align, 1)
            A == list[i]
            pieces == Pieces(A, k, j)
        IN /\ j = first_bin(heap.bins, Allocated.layout.align, k)
           /\ Allocated.ptr = A
           /\ \A n \in 1..Len(pieces) :
                 /\ pieces[n][1] = k + n - 1
                 /\ pieces[n][2] = A + Pow2(k + 3) + PiecesBytes(pieces, n - 1)
           /\ PiecesBytes(pieces, Len(pieces)) = Pow2(j + 3) - Pow2(k + 3)
           /\ heap'.bins =
                 InsertPieces([heap.bins EXCEPT ![j + 1] = Remove(list, i)],
                              pieces, 1)
           /\ heap'.free_start = heap.free_start
           /\ (FreeBlocks = {<<3, A>>} /\ Allocated.layout = Layout(8, 8))
                 => FreeBlocks' = {<<0, A + 8>>, <<1, A + 16>>, <<2, A + 32>>}
    ]_vars

\* A block of 8 bytes has been taken from the only free block, of 64 bytes.
C19_Witness ==
    /\ heapx.from = 3
    /\ heapx.live = {[ptr |-> HeapStart, layout |-> Layout(8, 8)]}
    /\ FreeBlocks = {<<0, HeapStart + 8>>, <<1, HeapStart + 16>>,
                     <<2, HeapStart + 32>>}

\* size <= 2^e on usize, e <= 64.
LeqPow2(size, e) ==
    \/ e = 64
    \/ size = OneHot(e)
    \/ \A i \in 1..4 :
          LET lo == 16 * (4 - i)
          IN IF e <= lo THEN size[i] = 0
             ELSE e >= lo + 16 \/ size[i] < Pow2(e - lo)

\* ceil(log2(size)) for size >= 1.
CeilLog2(size) == CHOOSE e \in 0..64 :
    LeqPow2(size, e) /\ \A d \in 0..(e - 1) : ~LeqPow2(size, d)

\* The results of map_to_bin and map_to_size that are there.
HasBin == calc.stage \in {"bin", "size", "alloc", "free"}
HasSize == calc.stage \in {"size", "alloc", "free"}

\* map_to_bin(size) = max(0, ceil(log2(size)) - 3) where it returns, with
\* the values of the table, and map_to_size(k) = 2^(k+3) where that is a
\* usize.
MapToBinIsCeilLog2 ==
    /\ HasBin /\ calc.size # U64Zero
          => calc.bin = Max(0, CeilLog2(calc.size) - 3)
    /\ HasBin /\ calc.size = U64Zero => calc.bin = 0
    /\ HasBin =>
          \A row \in {<<1, 0>>, <<8, 0>>, <<9, 1>>, <<16, 1>>, <<17, 2>>} :
             calc.size = U64FromNat(row[1]) => calc.bin = row[2]
    /\ HasBin /\ calc.size = OneHot(32) => calc.bin = 29
    /\ HasSize /\ calc.bin + 3 < 64 => calc.csize = OneHot(calc.bin + 3)

\* C20 as stated: map_to_bin returns max(0, ceil(log2(size)) - 3) for every
\* size >= 1 and 0 for size 0, map_to_size(k) is 2^(k+3), and the class of
\* a request for which alloc has returned a block is an index of the array
\* of free lists, so that the block can be freed.
C20_BinIsValidIndex ==
    /\ MapToBinIsCeilLog2
    /\ ~(calc.stage = "panic" /\ calc.at = "map_to_bin")
    /\ calc.stage = "alloc" /\ calc.ret # U64Zero => calc.bin < NumBins
    /\ ~(calc.stage = "panic" /\ calc.at = "insert_block")

\* The block of class c at address a has room for n bytes at a multiple of
\* align.
HasAlignedRegion(a, c, n, align) ==
    \E x \in a..(a + size_of(c) - 1) : x % align = 0 /\ x + n <= a + size_of(c)

\* C21 as stated: alloc(layout) returns null only when no free block of a
\* class >= bin(size) has room for class_size(bin(size)) bytes at a
\* multiple of layout.align(), and free_start aligned up plus
\* class_size(bin(size)) is behind the end of the heap.
C21_NullOnlyWhenNoRegion ==
    heapx.failed # NoLayout =>
        LET k == bin_of(heapx.failed.size)
        IN /\ \A fb \in FreeBlocks :
                 fb[1] >= k
                    => ~HasAlignedRegion(fb[2], fb[1], size_of(k),
                                         heapx.failed.align)
           /\ align_up(heap.free_start, heapx.failed.align) + size_of(k)
                 > heap.free_end

\* alloc returns null only when no free block of a class >= bin(size)
\* starts at a multiple of layout.align() and the free memory is too small.
NullOnlyWhenNoAlignedBlock ==
    heapx.failed # NoLayout =>
        LET k == bin_of(heapx.failed.size)
        IN /\ \A fb \in FreeBlocks :
                 fb[1] >= k => fb[2] % heapx.failed.align # 0
           /\ align_up(heap.free_start, heapx.failed.align) + size_of(k)
                 > heap.free_end

\* The memory from free_start on is in no block that is allocated or free
\* and was in none that alloc has returned.
FrontierUnused ==
    /\ HeapStart <= heap.free_start
    /\ heap.free_start <= heap.free_end
    /\ heapx.top <= heap.free_start
    /\ \A b \in heapx.live :
          b.ptr + size_of(bin_of(b.layout.size)) <= heap.free_start
    /\ \A fb \in FreeBlocks : fb[2] + size_of(fb[1]) <= heap.free_start

\* C23: start <= free_start <= end in every state, no call makes
\* free_start smaller, and the memory in [free_start, end) was never
\* returned by alloc and is in no block of a free list.
C23_FrontierMonotone ==
    []FrontierUnused /\ [][heap'.free_start >= heap.free_start]_vars

\* Blocks are allocated and free, the last block was freed and free memory
\* is left.
C23_Witness ==
    /\ FrontierUnused
    /\ heapx.live # {}
    /\ \E fb \in FreeBlocks : fb[2] + size_of(fb[1]) = heap.free_start
    /\ heap.free_start > HeapStart
    /\ heap.free_start < heap.free_end

\* C22 as stated: dealloc of a block that alloc has returned, with its
\* layout, never fails at an index of the array of free lists, whatever
\* size alloc has accepted and whatever class the merged block reaches.
C22_DeallocNeverFails == calc.at # "insert_block"


\* The free blocks of the heap of the pages: <<class, address>>.
VmFreeBlocks ==
    UNION {{<<k, vm.heap.bins[k + 1][i]>> :
               i \in 1..Len(vm.heap.bins[k + 1])} : k \in 0..(NumBins - 1)}

\* The page lies in a free block.
PageIsFree(page) ==
    \E fb \in VmFreeBlocks :
        fb[2] <= page /\ page + PAGE_SIZE <= fb[2] + size_of(fb[1])

\* When a user page table has been dropped, every page a valid L3 entry
\* led to is in a free list.
DroppedPagesAreFree ==
    vm.last.op = "drop" => \A page \in vm.last.reach : PageIsFree(page)

\* After new, alloc(USER_IMG_BASE, RWX) and drop, the next alloc of a page
\* returns the page of the table.
S4SamePage == Len(vm.s4) = 4 => vm.s4[4] = vm.s4[2]

\* C24: after a user page table is dropped every page that was reachable
\* through a valid L3 entry is back in a free list at the address alloc
\* returned for it, so that after alloc(USER_IMG_BASE, RWX) and the drop
\* of the table the next alloc of the heap with the layout of a page
\* returns the same page.
C24_DropFreesPages == DroppedPagesAreFree /\ S4SamePage


\* The blocks of the heap that hold a part of the page.
InUse(use, page) ==
    /\ page + PAGE_SIZE <= use.free_start
    /\ \A fb \in use.free :
          fb[1] + fb[2] <= page \/ page + PAGE_SIZE <= fb[1]

\* The call took exactly one page from the heap: the page it returned was
\* not in use before and is in use now, and no other page is.
TookOnePage ==
    /\ vm.last.ret # Null
    /\ vm.last.ret % PAGE_SIZE = 0
    /\ ~InUse(vm.last.hpre, vm.last.ret)
    /\ InUse(HeapUse(vm.heap), vm.last.ret)
    /\ \A i \in 0..(vm.heap.free_end \div PAGE_SIZE) :
          i * PAGE_SIZE # vm.last.ret =>
              (InUse(HeapUse(vm.heap), i * PAGE_SIZE)
                  <=> InUse(vm.last.hpre, i * PAGE_SIZE))

\* The call wrote a valid entry with the page in the slot of va -
\* USER_IMG_BASE and no other entry.
WroteOneEntry ==
    LET slot == locate(U64Sub(vm.last.va, USER_IMG_BASE)).slot
    IN /\ L3Entry_is_valid(EntryAt(vm.l3, slot))
       /\ get_masked(EntryAt(vm.l3, slot), "ADDR") = vm.last.ret
       /\ is_valid(vm.l3, vm.last.va)
       /\ \A other \in (DOMAIN vm.l3 \cup DOMAIN vm.last.pre) \ {slot} :
             EntryAt(vm.l3, other) = EntryAt(vm.last.pre, other)

\* The call ended in a panic and took nothing from the heap and wrote no
\* entry.
FatalUnchanged ==
    /\ vm.status = "panic"
    /\ HeapUse(vm.heap) = vm.last.hpre
    /\ vm.l3 = vm.last.pre

\* UserPageTable::alloc(va, perm) with va < USER_IMG_BASE is fatal and
\* changes nothing; every other call takes one page and writes its entry.
C25_AllocWritesOneEntry ==
    vm.last.op = "alloc" =>
        IF U64Less(vm.last.va, USER_IMG_BASE) THEN FatalUnchanged
        ELSE vm.status = "alive" /\ TookOnePage /\ WroteOneEntry

\* C25: UserPageTable::alloc(va, perm) with va < USER_IMG_BASE panics
\* without taking a page or changing the table, and so does a call that
\* finds no page in the heap; a call with va >= USER_IMG_BASE that is not a
\* multiple of the page size takes one page and panics without changing
\* the table; every other call takes exactly one page and writes a valid
\* L3 entry with ADDR = that page in the slot of va - USER_IMG_BASE, after
\* which is_valid(va) holds and every other L3 entry is unchanged.
C25_AllocWritesEntryOfAlignedVa ==
    vm.last.op = "alloc" =>
        IF U64Less(vm.last.va, USER_IMG_BASE)
        THEN vm.last.at = "below_base" /\ FatalUnchanged
        ELSE IF vm.last.at = "null"
        THEN alloc(vm.heap, PageLayout).ret = Null /\ FatalUnchanged
        ELSE IF vm.last.va[4] % PAGE_SIZE # 0
        THEN /\ vm.last.at = "locate"
             /\ vm.status = "panic"
             /\ TookOnePage
             /\ vm.l3 = vm.last.pre
        ELSE vm.status = "alive" /\ TookOnePage /\ WroteOneEntry

\* A call of alloc has written the entry of the last page of the user
\* space, in the second L3 table, next to an entry of the first.
C25_Witness ==
    /\ vm.last.op = "alloc"
    /\ vm.last.va = USER_STACK_BASE
    /\ vm.status = "alive"
    /\ vm.last.pre # NoEntries
    /\ WroteOneEntry


\* The last call of alloc named an aligned address at or above
\* USER_IMG_BASE whose entry was valid.
AllocOfAllocated ==
    /\ vm.last.op = "alloc"
    /\ ~U64Less(vm.last.va, USER_IMG_BASE)
    /\ vm.last.va[4] % PAGE_SIZE = 0
    /\ is_valid(vm.last.pre, vm.last.va)

\* C26: UserPageTable::alloc(va, perm) panics when the entry of va is
\* already valid and leaves that entry as it is, so that every page alloc
\* has handed out for a table that is alive is reachable through a valid
\* entry of the table.
C26_ValidEntryNotOverwritten ==
    /\ AllocOfAllocated => vm.status = "panic" /\ vm.l3 = vm.last.pre
    /\ vm.status = "alive" => vm.pages \subseteq Reachable(vm)


\* A load that finds no block for the kernel stack returns NoMemory and
\* has taken nothing from the heap.
StackNullIsNoMemory ==
    vm.last.op = "load" /\ vm.last.result = "NoMemory" =>
        /\ vm.status = "none"
        /\ HeapUse(vm.heap) = vm.last.hpre
        /\ alloc(vm.heap, StackLayout).ret = Null

\* C27: when the allocator returns null during Process::load, in
\* Process::new or in UserPageTable::alloc, the load does not panic: it
\* returns the error NoMemory.
C27_NullReportsNoMemory ==
    vm.last.op = "load" =>
        /\ vm.last.at \notin {"null", "handle_alloc_error"}
        /\ vm.status # "panic"


\* The entry of the kernel page table for the address a.
KernEntryOf(a) == EntryAt(kpt.l3, locate(U64FromNat(a)).slot)

\* The page-aligned addresses the kernel page table has entries for.
KernPages == {i * PAGE_SIZE : i \in 0..(L3Tables * L3Entries - 1)}

EntryStep(ops) == pc = "user" /\ last'.op \in ops /\ now' = now

\* A step that returns to a process.
SwitchedIn == pc' = "user" /\ last'.ret # None

\* The loop of switch_to, waiting since a kernel entry found no process
\* ready, picks a process that has slept.
SleeperPicked ==
    pc = "sched" /\ \E pr \in slept : last'.ret = Some(pr[1])

\* The process that entered the kernel is Ready at the tail of the queue,
\* or has been picked again and runs at the head.
CallerReadyAtTail ==
    LET n == Len(processes')
    IN IF last'.ret = Some(last'.caller)
       THEN /\ processes'[1].context.tpidr = last'.caller
            /\ processes'[1].state = Running
       ELSE /\ processes'[n].context.tpidr = last'.caller
            /\ processes'[n].state = Ready

Entered == exc.kind # "none"
EnteredSync(tag) ==
    Entered /\ exc.kind = "Synchronous" /\ Syndrome_from(exc.esr).tag = tag
SyscallOf(num) ==
    IF num = 1 THEN "sys_sleep"
    ELSE IF num = 2 THEN "sys_time"
    ELSE IF num = 3 THEN "sys_exit"
    ELSE IF num = 4 THEN "sys_write"
    ELSE "sys_getpid"

\* Brk: ELR is 4 further, modulo 2^64, every other field is as it was, and
\* the process is resumed.
BrkAdvances ==
    EnteredSync("Brk") =>
        /\ exc.out = "eret"
        /\ exc.tf = [exc.pre EXCEPT !.elr = exc.tf.elr]
        /\ U64Sub(exc.tf.elr, exc.pre.elr) = U64FromNat(4)

\* Svc(n) with n in 1..5: syscall n is called; the frame that is restored
\* is the frame of the caller with its ELR, or the whole frame of the
\* process a switch picked.
SvcDispatches ==
    (EnteredSync("Svc") /\ exc.esr[2] \in 1..5) =>
        /\ exc.out = "eret"
        /\ exc.call = SyscallOf(exc.esr[2])
        /\ exc.tf.elr = exc.pre.elr \/ exc.tf = OtherFrame
        /\ exc.call \in {"sys_time", "sys_write", "sys_getpid"} =>
               exc.tf.elr = exc.pre.elr

\* WfiWfe: the frame is as it was.
WfiWfeIgnored ==
    EnteredSync("WfiWfe") => exc.out = "eret" /\ exc.tf = exc.pre

\* The entries that the kernel does not handle.
NotHandled ==
    /\ Entered
    /\ \/ exc.kind \in {"Fiq", "SError"}
       \/ /\ exc.kind = "Synchronous"
          /\ Syndrome_from(exc.esr).tag \notin {"Brk", "Svc", "WfiWfe"}
       \/ EnteredSync("Svc") /\ exc.esr[2] \notin 1..5

\* The kernel is in its panic handler exactly after an entry it does not
\* handle, and then nothing runs.
OnlyOthersFatal ==
    /\ exc.stage = "fatal" <=> NotHandled
    /\ exc.stage = "fatal" => ~ENABLED NextExc

\* C29: handle_exception handles exactly three synchronous syndromes: Brk
\* advances ELR of the trap frame by exactly 4 and changes no other field,
\* Svc(n) dispatches syscall n without advancing ELR, WfiWfe leaves the
\* frame unchanged; every other synchronous syndrome, every FIQ or SError
\* and every syscall number outside 1..5 is fatal, and after that no
\* process runs.
C29_ThreeSyndromesHandled ==
    BrkAdvances /\ SvcDispatches /\ WfiWfeIgnored /\ OnlyOthersFatal

\* The last call ran schedule_out, and the places in the queue before it of
\* the processes whose tpidr is that of the frame.
SqScheduledOut == sq.last.op \in {"tick", "sleep", "exit", "kill"}
SqMatches ==
    {i \in 1..Len(sq.last.pre) :
        sq.last.pre[i].context.tpidr = sq.last.frame.tpidr}

\* C31: schedule_out(state, tf), when a process with tpidr = tf.tpidr is in
\* the queue, copies tf into the context of that process, sets its state to
\* the supplied state and moves it to the tail of the queue; the state, the
\* context and the relative order of every other process are unchanged.
C31_ScheduleOutMovesToTail ==
    (SqScheduledOut /\ SqMatches # {}) =>
        \E i \in SqMatches :
            /\ \A j \in SqMatches : i <= j
            /\ sq.last.out
            /\ Len(sq.last.mid) = Len(sq.last.pre)
            /\ sq.last.mid[Len(sq.last.mid)] =
                   [context |-> sq.last.frame, state |-> sq.last.state]
            /\ \A j \in 1..(Len(sq.last.pre) - 1) :
                   sq.last.mid[j] = sq.last.pre[IF j < i THEN j ELSE j + 1]

\* A process in the middle of a queue of three is scheduled out to wait,
\* with registers that differ from its saved context.
C31_Witness ==
    /\ sq.last.op = "sleep"
    /\ Len(sq.last.pre) = 3
    /\ sq.last.pre[2].context.tpidr = sq.last.frame.tpidr
    /\ sq.last.pre[2].context # sq.last.frame
    /\ sq.last.mid[3].state.tag = "Waiting"

\* The places of the Running processes in the queue before the last call.
SqRunning ==
    {i \in 1..Len(sq.last.pre) : sq.last.pre[i].state.tag = "Running"}

\* C32: schedule_out returns false and leaves the queue unchanged whenever
\* the queue is empty or holds no Running process; it returns true only when
\* it has scheduled out the process that was Running.
C32_TrueOnlyForRunning ==
    SqScheduledOut =>
        /\ SqRunning = {} => ~sq.last.out /\ sq.last.mid = sq.last.pre
        /\ sq.last.out => SqMatches \cap SqRunning # {}

\* The last call ran switch_to on the queue sq.last.mid, and the places of
\* the processes that were ready then: Ready, or Waiting for a time that
\* had passed.
SqSwitchedTo == sq.last.op \in {"start", "retry", "tick", "sleep", "exit"}
SqSleptEnough(p) ==
    GeU32(current_millis(sq.last.t) - p.state.start, p.state.ms)
SqReadyAt ==
    {i \in 1..Len(sq.last.mid) :
        \/ sq.last.mid[i].state.tag = "Ready"
        \/ sq.last.mid[i].state.tag = "Waiting"
              /\ SqSleptEnough(sq.last.mid[i])}

\* C33: switch_to(tf) selects the first process from the head whose
\* is_ready() is true: it is moved to the head and set to Running, its
\* context is copied into tf and its PID returned, and the order of the
\* other processes is kept; if no process is ready it returns None and
\* leaves tf, the queue and the state of every process as they were.
C33_SwitchToFirstReady ==
    SqSwitchedTo =>
        IF SqReadyAt = {}
        THEN /\ sq.last.ret = None
             /\ sq.last.tf = sq.last.frame
             /\ sq.last.post = sq.last.mid
        ELSE \E i \in SqReadyAt :
                /\ \A j \in SqReadyAt : i <= j
                /\ sq.last.ret = Some(sq.last.mid[i].context.tpidr)
                /\ sq.last.post[1].state = Running
                /\ sq.last.post[1].context.tpidr
                       = sq.last.mid[i].context.tpidr
                /\ sq.last.mid[i].state.tag = "Ready" =>
                       sq.last.post[1].context = sq.last.mid[i].context
                /\ sq.last.tf = sq.last.post[1].context
                /\ Len(sq.last.post) = Len(sq.last.mid)
                /\ \A j \in 1..Len(sq.last.mid) :
                       j # i =>
                          sq.last.post[IF j < i THEN j + 1 ELSE j]
                              = sq.last.mid[j]

\* switch_to passes a process that still has to wait and picks a process
\* behind it.
C33_Witness ==
    /\ SqSwitchedTo
    /\ sq.last.ret # None
    /\ Len(sq.last.mid) >= 2
    /\ sq.last.mid[1].state.tag = "Waiting"
    /\ 1 \notin SqReadyAt
    /\ sq.last.post[2] = sq.last.mid[1]

\* The milliseconds between the call of sleep of p and the last call.
SqElapsed(p) == current_millis(sq.last.t) - p.state.start

\* What is_ready has to return and to leave for the process p.
SqIsReady(p, r) ==
    IF p.state.tag = "Ready" THEN r.ready /\ r.proc = p
    ELSE IF p.state.tag = "Waiting" /\ SqSleptEnough(p)
    THEN /\ r.ready
         /\ r.proc.state = Ready
         /\ r.proc.context =
                [p.context EXCEPT !.x0 = U64FromNat(SqElapsed(p))]
    ELSE ~r.ready /\ r.proc = p

\* C34: is_ready() returns true for a Ready process without changing it;
\* for a Waiting process it polls the predicate once: if that returns true
\* the state becomes Ready, which holds no predicate; if it returns false
\* the process stays Waiting with the same predicate and is_ready returns
\* false, so that a later walk polls it again.
C34_IsReadyPollsOnce ==
    SqSwitchedTo =>
        /\ Len(sq.last.polls) <= Len(sq.last.mid)
        /\ \A j \in 1..Len(sq.last.polls) :
               SqIsReady(sq.last.mid[j], sq.last.polls[j])

\* A further iteration of the loop polls a process again that an earlier
\* one left Waiting, and now its time has come.
C34_Witness ==
    /\ sq.last.op = "retry"
    /\ Len(sq.last.mid) >= 2
    /\ sq.last.mid[1].state.tag = "Waiting"
    /\ sq.last.mid[2].state.tag = "Waiting"
    /\ sq.last.polls[1].ready
    /\ sq.last.polls[1].proc.state = Ready
    /\ sq.last.polls[1].proc.context.x0 = U64FromNat(12)

\* The calls of locate and of alloc so far.
LocCalls(op) == {i \in 1..Len(loc) : loc[i].op = op}

\* The bits 31..16 of an address, put together from the bits 31 and 30, a
\* slot's bit 29 and its bits 28..16.
LocBits(top, slot) == top * 16384 + slot[1] * 8192 + slot[2]

\* locate panics exactly for an address that is not a multiple of the page
\* size; else it returns the bit 29, which is below the number of L3
\* tables, and the bits 28..16.
LocateSplitsBits ==
    \A i \in LocCalls("locate") :
        /\ loc[i].at = "locate" <=> loc[i].va[4] # 0
        /\ loc[i].at = "none" =>
               \A slot \in loc[i].slots :
                  /\ slot[1] \in 0..(L3Tables - 1)
                  /\ slot[2] \in 0..(L3Entries - 1)
                  /\ \E top \in 0..3 : loc[i].va[3] = LocBits(top, slot)

\* Two calls of alloc that return, for two addresses, write the entries of
\* two slots.
AllocSlotsDiffer ==
    \A i, j \in LocCalls("alloc") :
        (loc[i].at = "none" /\ loc[j].at = "none" /\ loc[i].va # loc[j].va)
            => /\ Cardinality(loc[i].slots) = 1
               /\ loc[i].slots \cap loc[j].slots = {}

DeallocStep(freed) ==
    /\ freed \in heapx.live
    /\ heapx'.live = heapx.live \ {freed}

\* The bytes in the free lists: for each class the blocks of its list
\* times its size.
RECURSIVE ListBytes(_, _)
ListBytes(bins, k) ==
    IF k = NumBins THEN 0
    ELSE (IF bins[k + 1] = <<>> THEN 0 ELSE Len(bins[k + 1]) * size_of(k))
             + ListBytes(bins, k + 1)

\* No free list holds two blocks one class size apart.
NoNeighbors(bins) ==
    \A k \in 0..(NumBins - 1) :
        \/ Len(bins[k + 1]) < 2
        \/ \E s \in {size_of(k)} :
              \A i, j \in 1..Len(bins[k + 1]) :
                 bins[k + 1][i] + s # bins[k + 1][j]

\* The free blocks of the class k, of s bytes, that lie right before or
\* right behind the block at ptr.
FreedNeighbors(list, ptr, s) ==
    {a \in Range(list) : a + s = ptr \/ ptr + s = a}

\* The block at ptr of the class k, of s bytes, was pushed onto the list of
\* its class, or one neighbor has left that list and a block of a larger
\* class holds the bytes of both, from the lower address on.
MergedOrPushed(ptr, k, s) ==
    \E nb \in {FreedNeighbors(heap.bins[k + 1], ptr, s)} :
       IF nb = {}
       THEN heap'.bins = [heap.bins EXCEPT ![k + 1] = <<ptr>> \o @]
       ELSE \E a \in nb :
               /\ Range(heap'.bins[k + 1])
                      = Range(heap.bins[k + 1]) \ {a}
               /\ \E j \in (k + 1)..(NumBins - 1) :
                      /\ heap'.bins[j + 1] # <<>>
                      /\ \E b \in Range(heap'.bins[j + 1]) :
                            /\ b <= a /\ b <= ptr
                            /\ a + s <= b + size_of(j)
                            /\ ptr + s <= b + size_of(j)
                            /\ (b - (IF a < ptr THEN a ELSE ptr))
                                   % (2 * s) = 0

\* C36: insert_block merges the block with a free neighbor of its list,
\* at block - size or block + size: the neighbor is removed and the merged
\* block, from the lower address on, is inserted with twice the size;
\* else the block is pushed. After every dealloc no free list holds two
\* blocks one class size apart, and the free bytes have grown by the size
\* of the class of the layout.
C36_DeallocMerges ==
    [][\A freed \in heapx.live \ heapx'.live :
          DeallocStep(freed) =>
             \E k \in {bin_of(freed.layout.size)} : \E s \in {size_of(k)} :
                /\ MergedOrPushed(freed.ptr, k, s)
                /\ NoNeighbors(heap'.bins)
                /\ ListBytes(heap'.bins, 0) = ListBytes(heap.bins, 0) + s]_vars

\* The last dealloc found a neighbor twice: two blocks of 8 bytes and a
\* block of 16 bytes have become a block of 32 bytes.
C36_Witness ==
    /\ heapx.run.stage = 2
    /\ heapx.run.merged
    /\ heapx.run.layout.size = 8
    /\ \E fb \in FreeBlocks :
          /\ fb[1] = 2
          /\ heapx.run.ptr \in Bytes(fb[2], size_of(2))


\* ------------------------------------------------------------------ C37
\* The bytes a live block covers: the size of the class of its layout, from
\* the address alloc returned.
LiveExtent(block) == Bytes(block.ptr, size_of(bin_of(block.layout.size)))

\* The bytes a free block <<class, address>> covers.
FreeExtent(fb) == Bytes(fb[2], size_of(fb[1]))

\* C37: after any sequence of alloc and dealloc calls that keep the
\* preconditions, the blocks that are allocated, each with the size of its
\* class, are pairwise disjoint and disjoint from every block of every free
\* list; so alloc never returns memory that overlaps a live allocation.
C37_LiveBlocksDisjoint ==
    /\ \A a \in heapx.live : \A b \in heapx.live \ {a} :
          LiveExtent(a) \cap LiveExtent(b) = {}
    /\ \A a \in heapx.live : \A fb \in FreeBlocks :
          LiveExtent(a) \cap FreeExtent(fb) = {}

\* Three blocks are allocated, the last one was taken out of a free list,
\* and a free list still holds a block.
C37_Witness ==
    /\ Cardinality(heapx.live) >= 3
    /\ heapx.from \in 0..(NumBins - 1)
    /\ FreeBlocks # {}


\* ------------------------------------------------------------------ C39
\* The places, in the queue before the last call, of the processes other
\* than the one that ran when the kernel was entered.
SqOthers ==
    {i \in 1..Len(sq.last.pre) :
        Some(sq.last.pre[i].context.tpidr) # sq.last.cur}

\* The process p is in the queue with the state and the context it has in p.
SqKept(queue, p) == \E j \in 1..Len(queue) : queue[j] = p

\* C39: whatever tpidr the trap frame of the running process carries on
\* kernel entry, schedule_out (called by switch and by kill) and kill never
\* change the state or the saved context of a process other than the one
\* that was Running, nor remove such a process.
C39_OthersUntouched ==
    SqScheduledOut =>
        \A i \in SqOthers :
            /\ SqKept(sq.last.mid, sq.last.pre[i])
            /\ sq.last.op = "kill" => SqKept(sq.last.post, sq.last.pre[i])


\* ------------------------------------------------------------------ C40
\* The frames whose round trip the step closes: <<pid, tf, asleep>> where
\* the process pid was scheduled out with the frame tf of its own kernel
\* entry, by an earlier call or by the call of this step, and the switch_to
\* of this step makes it Running again.
SqResumed ==
    {s \in sq.saved \cup {<<c, sq'.last.frame, sq'.last.op = "sleep">> :
                              c \in Range(sq.cur)} :
        /\ s[2].tpidr = s[1]
        /\ sq'.n # sq.n
        /\ sq'.last.op \in {"retry", "tick", "sleep", "exit"}
        /\ sq'.last.out \/ s \in sq.saved
        /\ sq'.last.ret = Some(s[1])}

\* C40: when a process is scheduled out with the trap frame tf and is later
\* made Running again, the trap frame restored for it equals tf in every
\* field, except x_regs[0] when a sleep predicate woke it; no activity of
\* another process alters its saved context.
C40_ContextRoundTrip ==
    [][\A s \in SqResumed :
          \/ sq'.tf = s[2]
          \/ s[3] /\ [sq'.tf EXCEPT !.x0 = s[2].x0] = s[2]]_vars


\* ------------------------------------------------------------------ C38
\* The physical pages the valid L3 entries of a process lead to: the bits
\* of the ADDR field at their place, as the MMU reads them.
MappedPages(proc) ==
    {get_masked(proc.l3[s], "ADDR") :
        s \in {t \in DOMAIN proc.l3 : L3Entry_is_valid(proc.l3[t])}}

\* The bytes of a block of the allocator with a layout.
BlockExtent(ptr, layout) == Bytes(ptr, size_of(bin_of(layout.size)))
PageExtent(page) == BlockExtent(page, PageLayout)

\* The kernel allocations of a process: its kernel stack, its trap frame,
\* its page tables and the Box that holds them.
KernelBlocks(proc) ==
    {<<proc.stack, StackLayout>>, <<proc.context, TrapFrameLayout>>,
     <<proc.base, TableLayout>>, <<proc.vmap, BoxLayout>>}

\* C38: across any sequence of process loads and drops (the drop is what a
\* kill does to the process it removes; an exit drops nothing), no physical
\* page is referenced by valid L3 entries of two different live user page
\* tables, and no page referenced by a live user page table lies in a free
\* list of the allocator or overlaps a kernel allocation (page tables,
\* kernel stacks, trap frames).
C38_PagesIsolated ==
    \A i \in 1..Len(vm.procs) : \A page \in MappedPages(vm.procs[i]) :
        /\ \A j \in 1..Len(vm.procs) :
               j # i => page \notin MappedPages(vm.procs[j])
        /\ \A fb \in VmFreeBlocks :
               (PageExtent(page) \cap Bytes(fb[2], size_of(fb[1]))) = {}
        /\ \A j \in 1..Len(vm.procs) : \A kb \in KernelBlocks(vm.procs[j]) :
               (PageExtent(page) \cap BlockExtent(kb[1], kb[2])) = {}

\* Two processes are loaded, one with the page of its stack and a page of
\* its image, after a process was dropped: the block its Drop gave back is
\* in a free list.
C38_Witness ==
    /\ Len(vm.procs) = 2
    /\ \A i \in 1..2 : MappedPages(vm.procs[i]) # {}
    /\ \E i \in 1..2 : Cardinality(MappedPages(vm.procs[i])) = 2
    /\ \E fb \in VmFreeBlocks : fb[2] < PageHeapStart
====
